---- MODULE Spec2Model ----
(***************************************************************************)
(* Observable state container (state/store.ts) with the process-wide       *)
(* batch scheduler (state/batch.ts) and the per-store selector cache.       *)
(*                                                                         *)
(* Every public operation is one action.  A handler that calls listeners   *)
(* runs them inside the same action: the operators below thread a record   *)
(* w (the whole program state plus the events of the running operation)    *)
(* through the handler exactly as the call stack of the single-threaded    *)
(* program does, so a listener that calls back into the store (setState,   *)
(* destroy) is executed at the point of the flush where the code runs it.  *)
(***************************************************************************)
EXTENDS Integers, Sequences, FiniteSets, TLC

(***************************************************************************)
(* Bounds of the model.                                                    *)
(***************************************************************************)
MaxVal == 1
MaxVersion == 2
NestedMaxVersion == 3
CacheSelectors == 51
MaxClock == 53
MaxHits == 1
HotSelectors == 2
MaxSubscribes == 3
SubsMaxVersion == 1
MaxDepth == 2
MaxListeners == 2
FlushListeners == 3

(***************************************************************************)
(* Values.                                                                 *)
(***************************************************************************)
Keys == {"a", "b"}
Vals == 0..MaxVal
Snapshots == [Keys -> Vals]
Patches == UNION {[K -> Vals] : K \in SUBSET Keys}

None == <<>>
Some(x) == <<x>>

\* const state = config.initialState
InitialState == [k \in Keys |-> 0]

\* Faulty variant of the spread: the keys the patch lacks are reset.
MergeReplaces(snap, patch) == [k \in Keys |-> IF k \in DOMAIN patch THEN patch[k] ELSE 0]

\* { ...state, ...patch }: the keys of the patch override, the others stay.
Merge(snap, patch) == [k \in Keys |-> IF k \in DOMAIN patch THEN patch[k] ELSE snap[k]]

\* One-level key/value comparison (utils/equality.ts is not among the sources).
shallowEqual(x, y) == \A k \in Keys : x[k] = y[k]

\* A caller-supplied config.equalityFn that compares the key "a" only.
EqKinds == {"shallow", "keyA"}
ApplyEquality(kind, x, y) == IF kind = "keyA" THEN x["a"] = y["a"] ELSE shallowEqual(x, y)

\* The updaters a caller passes: a literal patch, or a function of the live
\* snapshot whose result is an object (here: bump key "a").
FnUpdaters == {"incA"}
Updaters == [kind : {"patch"}, p : Patches, f : {"-"}] \cup [kind : {"fn"}, p : {<<>>}, f : FnUpdaters]
UpdaterResult(u, snap) == IF u.kind = "fn" THEN [k \in {"a"} |-> (snap["a"] + 1) % (MaxVal + 1)] ELSE u.p

\* A function updater that throws, and whether updater(state) throws.
ThrowingUpdaters == [kind : {"fn"}, p : {<<>>}, f : {"boom"}]
UpdaterThrows(u, snap) == u.kind = "fn" /\ u.f = "boom"

\* A caller-supplied config.equalityFn that compares one level deep and
\* throws when the candidate's key "b" differs.
ThrowingEqKinds == {"throwB"}
ApplyEqualityThrows(kind, x, y) == kind = "throwB" /\ x["b"] # y["b"]

\* A selector that throws.
ThrowingSelectors == {0}
SelThrows(sel, snap) == sel \in ThrowingSelectors

\* Selectors are pure functions of the snapshot, identified by reference.
SelApply(sel, snap) ==
  CASE sel = 1 -> snap["a"]
    [] sel = 2 -> snap["b"]
    [] OTHER -> snap["a"] + snap["b"] + sel

\* Listener functions, identified by reference.  What a listener does when it
\* is called is the caller's code: 1 only observes, 2 observes and throws,
\* 3 calls setState({a: 1}) on its store, 4 calls destroy() on its store.
ListenerKind(l) == CASE l = 1 -> "plain" [] l = 2 -> "throw" [] l = 3 -> "set" [] l = 4 -> "destroy"
ListenerPatch == [k \in {"a"} |-> 1]

VARIABLES
  state,                  \* store.ts:66   let state
  isDestroyed,            \* store.ts:67
  listeners,              \* store.ts:68   Set<Listener>, in insertion order
  cache,                  \* store.ts:26   Map<Selector, {value, stateVersion}>, in insertion order
  stateVersion,           \* store.ts:28   SelectorCache.stateVersion
  hasPendingNotification, \* store.ts:73
  notificationPrevState,  \* store.ts:74
  equalityFn,             \* store.ts:70   config.equalityFn || shallowEqual
  batchDepth,             \* batch.ts      let batchDepth
  pendingNotifications,   \* batch.ts      Set<() => void>: the store each queued thunk belongs to
  lastOp,                 \* the operation the last step performed
  ret,                    \* what it returned, or that it threw
  trace,                  \* the listener calls, accepted mutations and selector calls it made, in order
  batchPrev,              \* history: the snapshot before the first mutation accepted in the open outermost batch
  innerSeen,              \* history: an inner batch was opened inside the open outermost batch
  muts,                   \* history: where in the open outermost batch mutations were accepted
  closedBatch,            \* history: batchPrev, innerSeen and muts of the outermost batch the last step closed
  selected,               \* history: the selectors select has evaluated since the store's last accepted mutation
  lru,                    \* history: a clock of select calls and, per cached selector, the time select last touched it
  sched,                  \* the scheduleBatch calls and thunk executions the last step made, in order
  subs,                   \* history: per store and listener, the closures subscribe returned and when it registered
  tasks,                  \* the call stack of open batch / batchAsync calls and the promises that have not settled
  arg,                    \* the updater the last step passed to setState
  form,                   \* the variables of one form control (createFormControl), the host's timers and its suspended validations
  lazy,                   \* the specified selector cache (kept entries, validated by stamp) run beside the code's, and counters of the select calls
  kv,                     \* the variables of one key-value cache (createCache) and the history of its accesses
  http,                   \* one HTTP client (createHttpClient) and the request it is serving
  broken                  \* history: the step properties, by claim, that the last step did not satisfy

progVars == <<state, isDestroyed, listeners, cache, stateVersion, hasPendingNotification,
              notificationPrevState, equalityFn, batchDepth, pendingNotifications>>
vars == <<state, isDestroyed, listeners, cache, stateVersion, hasPendingNotification,
          notificationPrevState, equalityFn, batchDepth, pendingNotifications,
          lastOp, ret, trace, batchPrev, innerSeen, muts, closedBatch, selected, lru,
          sched, subs, tasks, arg, form, lazy, kv, http, broken>>

StoreIds == DOMAIN state

\* The program state as one record, with the events of the running operation.
World ==
  [state |-> state, isDestroyed |-> isDestroyed, listeners |-> listeners, cache |-> cache,
   stateVersion |-> stateVersion, hasPendingNotification |-> hasPendingNotification,
   notificationPrevState |-> notificationPrevState, equalityFn |-> equalityFn,
   batchDepth |-> batchDepth, pendingNotifications |-> pendingNotifications,
   trace |-> <<>>, sched |-> <<>>, thrown |-> FALSE, result |-> None]

\* cur is the store's snapshot at the moment of the event.
Event(w, ev, s, l, next, prev, lvl) ==
  [ev |-> ev, st |-> s, l |-> l, next |-> next, prev |-> prev, lvl |-> lvl, cur |-> w.state[s]]
Emit(w, e) == [w EXCEPT !.trace = Append(@, e)]
\* The scheduler's log: scheduleBatch was called for the thunk of store s
\* ("schedule"), the thunk started ("run") or returned ("done").
Log(w, ev, s, lvl) ==
  [w EXCEPT !.sched = Append(@, [ev |-> ev, st |-> s, lvl |-> lvl, depth |-> w.batchDepth])]

(***************************************************************************)
(* SelectorCache (store.ts:25-63).  cache[s] is the Map in insertion       *)
(* order: the first element is what keys().next() yields.                  *)
(***************************************************************************)
maxSize == 50

CacheIndex(c, sel) == IF \E i \in 1..Len(c) : c[i].sel = sel
                      THEN CHOOSE i \in 1..Len(c) : c[i].sel = sel ELSE 0
RemoveAt(c, i) == SubSeq(c, 1, i - 1) \o SubSeq(c, i + 1, Len(c))

\* Faulty variant of get: the entry stays where it was inserted.
SelectorCacheGetInPlace(c, sel) == c
\* get: the entry, moved to the end of the Map when present.
SelectorCacheGetOrder(c, sel) ==
  LET i == CacheIndex(c, sel) IN IF i = 0 THEN c ELSE Append(RemoveAt(c, i), c[i])
SelectorCacheGet(c, sel) ==
  LET i == CacheIndex(c, sel) IN IF i = 0 THEN None ELSE Some(c[i])

\* Faulty variant of set: the value is not kept.
SelectorCacheSetDropped(c, sel, value, version) == c
\* set: at capacity the first key of the Map is deleted, then the entry is
\* written (Map.set of a key that is present keeps its position).
SelectorCacheSet(c, sel, value, version) ==
  LET c1 == IF Len(c) >= maxSize THEN Tail(c) ELSE c
      e == [sel |-> sel, value |-> value, stateVersion |-> version]
      i == CacheIndex(c1, sel)
  IN IF i = 0 THEN Append(c1, e) ELSE [c1 EXCEPT ![i] = e]

\* Faulty variants of invalidate: the version stands still; the Map is kept.
SelectorCacheInvalidateNoStamp(w, s) == [w EXCEPT !.cache[s] = <<>>]
SelectorCacheInvalidateNoClear(w, s) == [w EXCEPT !.stateVersion[s] = @ + 1]
\* invalidate: this.stateVersion++; this.cache.clear()
SelectorCacheInvalidate(w, s) ==
  [w EXCEPT !.stateVersion[s] = @ + 1, !.cache[s] = <<>>]

(***************************************************************************)
(* Store and scheduler handlers as functions of the world.  lvl is the     *)
(* nesting of flushes: 0 for a flush run by the operation itself or by the *)
(* queue drain, n + 1 for one caused by a listener of a flush of level n.  *)
(***************************************************************************)
RECURSIVE SetStateW(_, _, _, _)
RECURSIVE NotifyListenersW(_, _, _, _, _, _)

\* Faulty variant of destroy: the listener Set is not cleared.
DestroyKeepsListeners(w, s) ==
  IF w.isDestroyed[s] THEN w
  ELSE [Emit(w, Event(w, "destroyed", s, 0, w.state[s], w.state[s], 0))
          EXCEPT !.isDestroyed[s] = TRUE, !.cache[s] = <<>>]

\* destroy (store.ts:172-178). Set.clear() empties every entry in place: a
\* forEach that is running goes on over the emptied entries.
DestroyW(w, s) ==
  IF w.isDestroyed[s] THEN w
  ELSE [Emit(w, Event(w, "destroyed", s, 0, w.state[s], w.state[s], 0))
          EXCEPT !.isDestroyed[s] = TRUE,
                 !.listeners[s] = [i \in 1..Len(@) |-> 0],
                 !.cache[s] = <<>>]

\* Faulty variant of the listener call: the exception is not caught.
ListenerBodyUncaught(w, s, l, lvl) ==
  LET w1 == Emit(w, Event(w, "reenter", s, l, w.state[s], w.state[s], lvl))
  IN CASE ListenerKind(l) = "set" ->
            SetStateW(w1, s, [kind |-> "patch", p |-> ListenerPatch, f |-> "-"], lvl + 1)
       [] ListenerKind(l) = "destroy" -> DestroyW(w1, s)
       [] ListenerKind(l) = "throw" ->
            [Emit(w, Event(w, "error", s, l, w.state[s], w.state[s], lvl)) EXCEPT !.thrown = TRUE]
       [] OTHER -> w

\* One listener call inside notifyListeners' try/catch (store.ts:78-82).
ListenerBody(w, s, l, lvl) ==
  LET w1 == Emit(w, Event(w, "reenter", s, l, w.state[s], w.state[s], lvl))
  IN CASE ListenerKind(l) = "set" ->
            LET w2 == SetStateW(w1, s, [kind |-> "patch", p |-> ListenerPatch, f |-> "-"], lvl + 1)
            IN IF w2.thrown
               THEN [Emit(w2, Event(w2, "error", s, l, w2.state[s], w2.state[s], lvl))
                       EXCEPT !.thrown = FALSE]
               ELSE w2
       [] ListenerKind(l) = "destroy" -> DestroyW(w1, s)
       [] ListenerKind(l) = "throw" -> Emit(w, Event(w, "error", s, l, w.state[s], w.state[s], lvl))
       [] OTHER -> w

\* notifyListeners (store.ts:76-84): Set.forEach walks the live entry list
\* from position i; an entry deleted before its turn (0) is skipped.
NotifyListenersW(w, s, prevState, nextState, i, lvl) ==
  IF i > Len(w.listeners[s]) THEN w
  ELSE LET l == w.listeners[s][i] IN
       IF l = 0 THEN NotifyListenersW(w, s, prevState, nextState, i + 1, lvl)
       ELSE NotifyListenersW(
              ListenerBody(Emit(w, Event(w, "call", s, l, nextState, prevState, lvl)), s, l, lvl),
              s, prevState, nextState, i + 1, lvl)

\* Faulty variant of the closure: the pending flag is left set.
FlushThunkStaysPending(w, s, lvl) ==
  LET w1 == Log(w, "run", s, lvl)
      w2 == NotifyListenersW(w1, s, w1.notificationPrevState[s][1], w1.state[s], 1, lvl)
  IN Log([w2 EXCEPT !.notificationPrevState[s] = None], "done", s, lvl)

\* Faulty variants of the closure: no listener is told; the listeners get
\* the current snapshot as the previous one.
FlushThunkSilent(w, s, lvl) ==
  [w EXCEPT !.hasPendingNotification[s] = FALSE, !.notificationPrevState[s] = None]
FlushThunkNoPrev(w, s, lvl) ==
  LET w1 == [w EXCEPT !.hasPendingNotification[s] = FALSE]
      w2 == NotifyListenersW(w1, s, w1.state[s], w1.state[s], 1, lvl)
  IN [w2 EXCEPT !.notificationPrevState[s] = None]

\* The closure notify hands to scheduleBatch (store.ts:94-99).
FlushThunk(w, s, lvl) ==
  LET w1 == [Log(w, "run", s, lvl) EXCEPT !.hasPendingNotification[s] = FALSE]
      w2 == NotifyListenersW(w1, s, w1.notificationPrevState[s][1], w1.state[s], 1, lvl)
  IN Log([w2 EXCEPT !.notificationPrevState[s] = None], "done", s, lvl)

\* Functions other callers hand to scheduleBatch, identified by reference
\* (a store's closure is identified by the store): -1 throws, -2 returns.
ExternalThunks == {-1, -2}
ThunkThrows(t) == t = -1

\* fn(): a store's flush closure or another caller's function is called.
RunThunk(w, t, lvl) ==
  IF t \notin ExternalThunks THEN FlushThunk(w, t, lvl)
  ELSE LET w1 == Log(w, "run", t, lvl)
       IN IF ThunkThrows(t) THEN [w1 EXCEPT !.thrown = TRUE] ELSE Log(w1, "done", t, lvl)

\* Faulty variant of scheduleBatch: the thunk runs at once at any depth.
scheduleBatchEager(w, s, lvl) == FlushThunk(w, s, lvl)

\* Faulty variant of scheduleBatch: inside a batch the thunk is not queued.
scheduleBatchDropped(w, s, lvl) ==
  LET w1 == Log(w, "schedule", s, lvl)
  IN IF w1.batchDepth = 0 THEN FlushThunk(w1, s, lvl) ELSE w1

\* scheduleBatch (batch.ts:477-485).
\* pendingNotifications.add(fn): every closure of a store is a new
\* function, a function that is in the Set already is not added again.
scheduleBatch(w, s, lvl) ==
  LET w1 == Log(w, "schedule", s, lvl)
  IN IF w1.batchDepth = 0 THEN RunThunk(w1, s, lvl)
     ELSE IF s \in ExternalThunks /\ \E i \in 1..Len(w1.pendingNotifications) :
                                        w1.pendingNotifications[i] = s
          THEN w1
          ELSE [w1 EXCEPT !.pendingNotifications = Append(@, s)]

\* Faulty variant of notify: the closure is run without the scheduler.
notifyDirect(w, s, prevState, lvl) ==
  IF w.isDestroyed[s] THEN w
  ELSE IF ~w.hasPendingNotification[s]
       THEN FlushThunk([w EXCEPT !.hasPendingNotification[s] = TRUE,
                                 !.notificationPrevState[s] = Some(prevState)], s, lvl)
       ELSE w

\* notify (store.ts:86-103).
notify(w, s, prevState, lvl) ==
  IF w.isDestroyed[s] THEN w
  ELSE IF ~w.hasPendingNotification[s]
       THEN scheduleBatch([w EXCEPT !.hasPendingNotification[s] = TRUE,
                                    !.notificationPrevState[s] = Some(prevState)], s, lvl)
       ELSE w

\* Faulty variant of setState: the snapshot is replaced before the
\* candidate is compared.
SetStateWritesFirst(w, s, updater, lvl) ==
  IF w.isDestroyed[s] THEN Emit(w, Event(w, "warn", s, 0, w.state[s], w.state[s], lvl))
  ELSE IF UpdaterThrows(updater, w.state[s]) THEN [w EXCEPT !.thrown = TRUE]
  ELSE LET prevState == w.state[s]
           nextState == Merge(prevState, UpdaterResult(updater, prevState))
           w0 == [w EXCEPT !.state[s] = nextState]
       IN IF ApplyEqualityThrows(w.equalityFn[s], prevState, nextState)
          THEN [w0 EXCEPT !.thrown = TRUE]
          ELSE IF ApplyEquality(w.equalityFn[s], prevState, nextState)
          THEN Emit(w0, Event(w0, "reject", s, 0, nextState, prevState, lvl))
          ELSE LET w1 == SelectorCacheInvalidate(w0, s)
                   w2 == Emit(w1, Event(w1, "accept", s, 0, nextState, prevState, lvl))
               IN IF ~w2.hasPendingNotification[s] THEN notify(w2, s, prevState, lvl) ELSE w2

\* setState (store.ts:113-143).  An exception of updater(state) (line 123)
\* or of equalityFn (line 132) leaves the handler at that line.
SetStateW(w, s, updater, lvl) ==
  IF w.isDestroyed[s] THEN Emit(w, Event(w, "warn", s, 0, w.state[s], w.state[s], lvl))
  ELSE IF UpdaterThrows(updater, w.state[s]) THEN [w EXCEPT !.thrown = TRUE]
  ELSE LET prevState == w.state[s]
           nextState == Merge(prevState, UpdaterResult(updater, prevState))
       IN IF ApplyEqualityThrows(w.equalityFn[s], prevState, nextState)
          THEN [w EXCEPT !.thrown = TRUE]
          ELSE IF ApplyEquality(w.equalityFn[s], prevState, nextState)
          THEN Emit(w, Event(w, "reject", s, 0, nextState, prevState, lvl))
          ELSE LET w1 == SelectorCacheInvalidate([w EXCEPT !.state[s] = nextState], s)
                   w2 == Emit(w1, Event(w1, "accept", s, 0, nextState, prevState, lvl))
               IN IF ~w2.hasPendingNotification[s] THEN notify(w2, s, prevState, lvl) ELSE w2

\* Faulty variant of getState: a destroyed store answers.
GetStateUnguarded(w, s) == [w EXCEPT !.result = Some(w.state[s])]

\* Faulty variant of getState: while a flush is pending the snapshot the
\* listeners saw last is returned.
GetStateLagging(w, s) ==
  IF w.isDestroyed[s] THEN [w EXCEPT !.thrown = TRUE]
  ELSE IF w.hasPendingNotification[s] THEN [w EXCEPT !.result = w.notificationPrevState[s]]
       ELSE [w EXCEPT !.result = Some(w.state[s])]

\* getState (store.ts:106-111).
GetStateW(w, s) ==
  IF w.isDestroyed[s] THEN [w EXCEPT !.thrown = TRUE]
  ELSE [w EXCEPT !.result = Some(w.state[s])]

\* Faulty variants of subscribe: every call adds an entry; a new listener
\* goes to the front.
SubscribeAlways(w, s, l) ==
  IF w.isDestroyed[s] THEN [w EXCEPT !.thrown = TRUE]
  ELSE [w EXCEPT !.listeners[s] = Append(@, l)]
SubscribeFront(w, s, l) ==
  IF w.isDestroyed[s] THEN [w EXCEPT !.thrown = TRUE]
  ELSE IF \E i \in 1..Len(w.listeners[s]) : w.listeners[s][i] = l THEN w
       ELSE [w EXCEPT !.listeners[s] = <<l>> \o @]

\* subscribe (store.ts:145-155): Set.add keeps a listener that is present where it is.
SubscribeW(w, s, l) ==
  IF w.isDestroyed[s] THEN [w EXCEPT !.thrown = TRUE]
  ELSE IF \E i \in 1..Len(w.listeners[s]) : w.listeners[s][i] = l THEN w
       ELSE [w EXCEPT !.listeners[s] = Append(@, l)]

\* Faulty variants of the closure: it empties the Set; it deletes nothing.
UnsubscribeClears(w, s, l) == [w EXCEPT !.listeners[s] = [i \in 1..Len(@) |-> 0]]
UnsubscribeKept(w, s, l) == w

\* The closure subscribe returns (store.ts:152-154): listeners.delete(listener).
UnsubscribeW(w, s, l) ==
  [w EXCEPT !.listeners[s] = [i \in 1..Len(@) |-> IF @[i] = l THEN 0 ELSE @[i]]]

\* getListenerCount (store.ts:180-182): the size of the Set.
getListenerCount(w, s) == Len(SelectSeq(w.listeners[s], LAMBDA x : x # 0))

\* select (store.ts:157-170).
SelectW(w, s, sel) ==
  IF w.isDestroyed[s] THEN [w EXCEPT !.thrown = TRUE]
  ELSE LET cached == SelectorCacheGet(w.cache[s], sel)
           w1 == [w EXCEPT !.cache[s] = SelectorCacheGetOrder(@, sel)]
       IN IF cached # None THEN [w1 EXCEPT !.result = Some(cached[1].value)]
          ELSE IF SelThrows(sel, w1.state[s])
          THEN [Emit(w1, Event(w1, "selector", s, sel, w1.state[s], w1.state[s], 0))
                  EXCEPT !.thrown = TRUE]
          ELSE LET result == SelApply(sel, w1.state[s])
                   w2 == Emit(w1, Event(w1, "selector", s, sel, w1.state[s], w1.state[s], 0))
               IN [w2 EXCEPT !.cache[s] = SelectorCacheSet(@, sel, result, w2.stateVersion[s]),
                             !.result = Some(result)]

\* flushNotifications (batch.ts:461-471): the queue is copied and cleared,
\* then the thunks run in order, each in its own try/catch.
RECURSIVE RunThunks(_, _)
\* Faulty variant of the drain: a thunk's exception ends it.
RunThunksUncaught(w, thunks) ==
  IF thunks = <<>> THEN w
  ELSE LET w1 == RunThunk(w, Head(thunks), 0)
       IN IF w1.thrown THEN w1 ELSE RunThunks(w1, Tail(thunks))
RunThunks(w, thunks) ==
  IF thunks = <<>> THEN w
  ELSE LET w1 == RunThunk(w, Head(thunks), 0)
       IN RunThunks(IF w1.thrown
                    THEN [Log(w1, "caught", Head(thunks), 0) EXCEPT !.thrown = FALSE]
                    ELSE w1, Tail(thunks))
\* Faulty variant of flushNotifications: the thunks run last queued first.
flushNotificationsReversed(w) ==
  RunThunks([w EXCEPT !.pendingNotifications = <<>>],
            [i \in 1..Len(w.pendingNotifications) |->
               w.pendingNotifications[Len(w.pendingNotifications) + 1 - i]])
flushNotifications(w) ==
  RunThunks([w EXCEPT !.pendingNotifications = <<>>], w.pendingNotifications)

\* Faulty variant of endBatch: the depth is decremented and nothing drained.
endBatchKeepsQueue(w) == [w EXCEPT !.batchDepth = @ - 1]

\* Faulty variant of endBatch: the queue is drained at every depth.
endBatchDrains(w) ==
  LET w1 == [w EXCEPT !.batchDepth = @ - 1]
  IN IF Len(w1.pendingNotifications) > 0 THEN flushNotifications(w1) ELSE w1

\* startBatch / endBatch (batch.ts:494-503).
startBatch(w) == [w EXCEPT !.batchDepth = @ + 1]
endBatch(w) ==
  LET w1 == [w EXCEPT !.batchDepth = @ - 1]
  IN IF w1.batchDepth = 0 /\ Len(w1.pendingNotifications) > 0 THEN flushNotifications(w1) ELSE w1

\* batch (batch.ts:509-525) after fn: a promise is returned with endBatch as
\* its finally callback; fn threw, the catch block runs endBatch and rethrows.
batchPromise(w) == w
\* Faulty variant of the finally callback: it runs on fulfilment only.
batchThenOnly(w, rejected) == IF rejected THEN [w EXCEPT !.thrown = TRUE] ELSE endBatch(w)
batchFinally(w, rejected) == [endBatch(w) EXCEPT !.thrown = rejected]
\* Faulty variant of the catch block: endBatch is not called.
batchCatchLeaks(w) == [w EXCEPT !.thrown = TRUE]
batchCatch(w) == [endBatch(w) EXCEPT !.thrown = TRUE]

\* batchAsync (batch.ts:531-541): the catch block, run when fn throws before
\* the await or when the awaited promise rejects; the resumption after await.
\* Faulty variant of the catch block: endBatch is not called.
batchAsyncCatchLeaks(w) == [w EXCEPT !.thrown = TRUE]
batchAsyncCatch(w) == [endBatch(w) EXCEPT !.thrown = TRUE]
batchAsyncResume(w, rejected) == IF rejected THEN batchAsyncCatch(w) ELSE endBatch(w)

(***************************************************************************)
(* The operations as actions.  Commit writes the world an operation left  *)
(* behind into the variables; between operations no forEach is running,   *)
(* so the emptied entries of the listener Sets are dropped.                *)
(***************************************************************************)
Live(ls) == SelectSeq(ls, LAMBDA x : x # 0)
\* The operations that end with endBatch.
ClosingOps == {"batchExit", "batchThrow", "settle", "batchAsyncThrow", "batchAsyncSettle"}
Op(name, s, id) == [op |-> name, st |-> s, id |-> id]

Commit(w, op) ==
  /\ state' = w.state
  /\ isDestroyed' = w.isDestroyed
  /\ listeners' = [s \in StoreIds |-> Live(w.listeners[s])]
  /\ cache' = w.cache
  /\ stateVersion' = w.stateVersion
  /\ hasPendingNotification' = w.hasPendingNotification
  /\ notificationPrevState' = w.notificationPrevState
  /\ equalityFn' = w.equalityFn
  /\ batchDepth' = w.batchDepth
  /\ pendingNotifications' = w.pendingNotifications
  /\ lastOp' = op
  /\ ret' = [thrown |-> w.thrown, val |-> w.result]
  /\ trace' = w.trace
  /\ sched' = w.sched
  /\ closedBatch' = IF op.op \in ClosingOps /\ w.batchDepth = 0
                    THEN Some([prev |-> batchPrev, inner |-> innerSeen, muts |-> muts,
                               order |-> tasks.order]) ELSE None
  /\ selected' = [s \in StoreIds |->
                    IF \E i \in 1..Len(w.trace) : w.trace[i].ev = "accept" /\ w.trace[i].st = s THEN {}
                    ELSE IF op.op = "select" /\ op.st = s /\ ~w.thrown THEN selected[s] \cup {op.id}
                    ELSE selected[s]]

\* Where in the open outermost batch the program is.
Position == IF batchDepth >= 2 THEN "inside" ELSE IF innerSeen THEN "after" ELSE "before"
Accepted(tr, s) == \E i \in 1..Len(tr) : tr[i].ev = "accept" /\ tr[i].st = s

SetState(s, u) ==
  /\ LET w == SetStateW(World, s, u, 0) IN
       /\ Commit(w, Op("setState", s, 0))
       /\ batchPrev' = IF batchDepth > 0 /\ Accepted(w.trace, s) /\ batchPrev[s] = None
                       THEN [batchPrev EXCEPT ![s] = Some(state[s])] ELSE batchPrev
  /\ UNCHANGED innerSeen

\* The history of where in the batch the step's mutation was accepted.
TrackMuts(s) ==
  muts' = IF batchDepth > 0 /\ Accepted(trace', s)
          THEN [muts EXCEPT ![s] = @ \cup {Position}] ELSE muts

GetState(s) ==
  /\ Commit(GetStateW(World, s), Op("getState", s, 0))
  /\ UNCHANGED <<batchPrev, innerSeen>>

Subscribe(s, l) ==
  /\ \/ Len(listeners[s]) < MaxListeners
     \/ \E i \in 1..Len(listeners[s]) : listeners[s][i] = l
  /\ Commit(SubscribeW(World, s, l), Op("subscribe", s, l))
  /\ UNCHANGED <<batchPrev, innerSeen>>

\* The closure is called while its listener is registered.
Unsubscribe(s, l) ==
  /\ \E i \in 1..Len(listeners[s]) : listeners[s][i] = l
  /\ Commit(UnsubscribeW(World, s, l), Op("unsubscribe", s, l))
  /\ UNCHANGED <<batchPrev, innerSeen>>

Select(s, sel) ==
  /\ Commit(SelectW(World, s, sel), Op("select", s, sel))
  /\ UNCHANGED <<batchPrev, innerSeen>>

Destroy(s) ==
  /\ Commit(DestroyW(World, s), Op("destroy", s, 0))
  /\ UNCHANGED <<batchPrev, innerSeen>>

\* batch(fn) is entered: startBatch (batch.ts:510).
BatchEnter ==
  /\ batchDepth < MaxDepth
  /\ Commit(startBatch(World), Op("batchEnter", 0, 0))
  /\ innerSeen' = (innerSeen \/ batchDepth >= 1)
  /\ UNCHANGED batchPrev

\* fn has returned or thrown: endBatch (batch.ts:519, 522).
BatchExit ==
  /\ batchDepth > 0
  /\ Commit(endBatch(World), Op("batchExit", 0, 0))
  /\ batchPrev' = IF batchDepth = 1 THEN [s \in StoreIds |-> None] ELSE batchPrev
  /\ innerSeen' = IF batchDepth = 1 THEN FALSE ELSE innerSeen

(***************************************************************************)
(* The form control (createFormControl).  null is written "null";          *)
(* validateTimeout is the id of the armed timer or 0; timers are the       *)
(* host's armed timers of the control; runs are its validations suspended  *)
(* at an await, each with the value and id it was started with, the        *)
(* validator it waits for or the result runValidation returned, and the    *)
(* history of what happened since it started.  The listeners only observe. *)
(***************************************************************************)
FormVals == 0..1
NoRun == [id |-> 0, val |-> 0, k |-> 0, at |-> "none", err |-> "null",
          superseded |-> FALSE, cancelled |-> FALSE]

createFormControl(initialValue, validators, mode) ==
  [initialValue |-> initialValue, validators |-> validators, mode |-> mode,
   value |-> initialValue, error |-> "null", touched |-> FALSE, dirty |-> FALSE,
   validating |-> FALSE, isDestroyed |-> FALSE, validateTimeout |-> 0,
   currentValidationId |-> 0, listeners |-> 0,
   timers |-> {}, timerSeq |-> 0, runs |-> <<>>,
   op |-> "create", notified |-> 0, last |-> NoRun, fired |-> 0, given |-> None, dead |-> {}]

\* The validators a caller passes: "required" reports value 0 (the empty
\* input), "throwing" throws.
ValidatorKinds == {"required", "throwing"}
ValidatorResult(kind, val) ==
  CASE kind = "required" -> IF val = 0 THEN "required" ELSE "null"
    [] kind = "throwing" -> "throws"

\* notify: every listener is called, unless the control is destroyed.
formNotify(f) == IF f.isDestroyed THEN f ELSE [f EXCEPT !.notified = @ + f.listeners]

\* clearValidateTimeout.
clearValidateTimeout(f) ==
  IF f.validateTimeout # 0
  THEN [f EXCEPT !.timers = @ \ {f.validateTimeout}, !.validateTimeout = 0]
  ELSE f

Stale(f, validationId) == f.isDestroyed \/ validationId # f.currentValidationId

\* runValidation from validator k on, up to its next await or its return.
runValidationFrom(f, r, k) ==
  IF k > Len(f.validators) THEN [r EXCEPT !.at = "returned", !.err = "null"]
  ELSE [r EXCEPT !.at = "validator", !.k = k]

\* runValidation is called: the check of line 54, then the first validator.
runValidation(f, val, validationId) ==
  LET r == [NoRun EXCEPT !.id = validationId, !.val = val]
  IN IF Stale(f, validationId) THEN [r EXCEPT !.at = "returned", !.err = "null"]
     ELSE runValidationFrom(f, r, 1)

\* runValidation resumes after await validator(val): a stale validation
\* returns null, a thrown validator 'Validation error', an error itself.
runValidationResume(f, r) ==
  LET err == ValidatorResult(f.validators[r.k], r.val)
  IN IF Stale(f, r.id) THEN [r EXCEPT !.at = "returned", !.err = "null"]
     ELSE IF err = "throws" THEN [r EXCEPT !.at = "returned", !.err = "Validation error"]
     ELSE IF err # "null" THEN [r EXCEPT !.at = "returned", !.err = err]
     ELSE runValidationFrom(f, r, r.k + 1)

\* Faulty variant of validateImmediate: validating is not set.
validateImmediateSilent(f) ==
  IF f.isDestroyed \/ Len(f.validators) = 0 THEN f
  ELSE LET validationId == f.currentValidationId + 1
           f1 == formNotify([f EXCEPT !.currentValidationId = validationId])
       IN [f1 EXCEPT !.runs = Append(@, runValidation(f1, f1.value, validationId))]

\* validateImmediate up to its await.
validateImmediate(f) ==
  IF f.isDestroyed \/ Len(f.validators) = 0 THEN f
  ELSE LET validationId == f.currentValidationId + 1
           f1 == formNotify([f EXCEPT !.currentValidationId = validationId,
                                      !.validating = TRUE])
       IN [f1 EXCEPT !.runs = Append(@, runValidation(f1, f1.value, validationId))]

\* Faulty variant of the resumption: the result is written unchecked.
validateImmediateUnchecked(f, r) ==
  formNotify([f EXCEPT !.error = r.err, !.validating = FALSE])

\* validateImmediate resumes after await runValidation(...).
validateImmediateResume(f, r) ==
  IF Stale(f, r.id) THEN f
  ELSE formNotify([f EXCEPT !.error = r.err, !.validating = FALSE])

\* The timer callback setValue arms.
validateTimeoutFires(f) ==
  LET f1 == [f EXCEPT !.validateTimeout = 0]
  IN IF ~f1.isDestroyed THEN validateImmediate(f1) ELSE f1

setValue(f, val) ==
  IF f.isDestroyed THEN f
  ELSE LET changed == f.value # val
           f1 == [f EXCEPT !.value = val]
       IN IF ~changed THEN f1
          ELSE LET f2 == formNotify([f1 EXCEPT !.dirty = TRUE])
               IN IF f2.mode = "change"
                  THEN LET f3 == clearValidateTimeout(f2)
                       IN [f3 EXCEPT !.timerSeq = @ + 1, !.validateTimeout = f3.timerSeq + 1,
                                     !.timers = @ \cup {f3.timerSeq + 1}]
                  ELSE f2

setError(f, err) == IF f.isDestroyed THEN f ELSE formNotify([f EXCEPT !.error = err])

markTouched(f) ==
  IF f.isDestroyed THEN f
  ELSE LET f1 == IF ~f.touched THEN formNotify([f EXCEPT !.touched = TRUE]) ELSE f
       IN IF f1.mode = "blur" THEN validateImmediate(f1) ELSE f1

markDirty(f) ==
  IF f.isDestroyed THEN f
  ELSE IF ~f.dirty THEN formNotify([f EXCEPT !.dirty = TRUE]) ELSE f

validate(f) == IF f.isDestroyed THEN f ELSE validateImmediate(f)

\* Faulty variant of reset: the validation id is left as it is.
resetKeepsId(f, newValue) ==
  IF f.isDestroyed THEN f
  ELSE LET f1 == clearValidateTimeout(f)
       IN formNotify([f1 EXCEPT !.value = IF newValue # None THEN newValue[1] ELSE f.initialValue,
                                !.error = "null", !.touched = FALSE, !.dirty = FALSE,
                                !.validating = FALSE])

\* reset(newValue): newValue is None when the argument is left out.
reset(f, newValue) ==
  IF f.isDestroyed THEN f
  ELSE LET f1 == clearValidateTimeout(f)
       IN formNotify([f1 EXCEPT !.currentValidationId = @ + 1,
                                !.value = IF newValue # None THEN newValue[1] ELSE f.initialValue,
                                !.error = "null", !.touched = FALSE, !.dirty = FALSE,
                                !.validating = FALSE])

formSubscribe(f) == IF f.isDestroyed THEN f ELSE [f EXCEPT !.listeners = 1]

formDestroy(f) ==
  IF f.isDestroyed THEN f
  ELSE LET f1 == clearValidateTimeout([f EXCEPT !.isDestroyed = TRUE])
       IN [f1 EXCEPT !.currentValidationId = @ + 1, !.listeners = 0]

(***************************************************************************)
(* One store, created by createStore (store.ts:65-74), with either         *)
(* equality function; the callers use listeners 1..4 and selectors 1..2.   *)
(***************************************************************************)
(* The selector cache as specified: entries are kept across mutations and  *)
(* a lookup hits only when the entry's stamp equals the store's version.   *)
(* c is the mapping in recency order, least recently used first.           *)
(***************************************************************************)
LazyCache == [c |-> <<>>, calls |-> 0, known |-> 0, invoked |-> FALSE, value |-> None]

LazyIndex(c, sel) == IF \E i \in 1..Len(c) : c[i].sel = sel
                     THEN CHOOSE i \in 1..Len(c) : c[i].sel = sel ELSE 0
LazyWithout(c, i) == [j \in 1..(Len(c) - 1) |-> IF j < i THEN c[j] ELSE c[j + 1]]
\* Insertion of a key the mapping does not hold, under the bound of 50.
LazyInsert(c, e) == Append(IF Len(c) >= maxSize THEN Tail(c) ELSE c, e)
\* select: a hit needs a matching stamp and moves the entry to the most
\* recently used position; a miss invokes the selector and stores the result
\* stamped with the current version.
LazySelect(l, sel, snap, version) ==
  LET i == LazyIndex(l.c, sel) IN
  IF i # 0 /\ l.c[i].stamp = version
  THEN [l EXCEPT !.c = Append(LazyWithout(@, i), l.c[i]),
                 !.invoked = FALSE, !.value = Some(l.c[i].value)]
  ELSE LET e == [sel |-> sel, value |-> SelApply(sel, snap), stamp |-> version]
       IN [l EXCEPT !.c = LazyInsert(IF i = 0 THEN @ ELSE LazyWithout(@, i), e),
                    !.invoked = TRUE, !.value = Some(e.value)]

(***************************************************************************)
(* The key-value cache (createCache).  cache is the Map in insertion       *)
(* order.  Keys are non-empty strings and values are numbers; now is the   *)
(* reading of Date.now(), counted in units of the entries' ttl.  recent is *)
(* history: the keys held, in the order of their last set or successful    *)
(* get, least recent first; evicted lists the keys the last operation      *)
(* evicted through evictLRU.                                               *)
(***************************************************************************)
KvMaxEntries == 2
KvMaxHits == 2
KvMaxMisses == 1
KvMaxEvictions == 2
KvMaxNow == 2
KvTTL == 1
KvKeys == 1..3
KvVals == 0..1
kvMaxSize == 10485760

createCache(maxEntries) ==
  [maxEntries |-> maxEntries, cache |-> <<>>, totalSize |-> 0, hits |-> 0, misses |-> 0,
   evictions |-> 0, isDestroyed |-> FALSE, cleanupInterval |-> TRUE, now |-> 0,
   recent |-> <<>>, evicted |-> <<>>, op |-> "create", key |-> 0, ret |-> None]

\* estimateSize of a number.
estimateSize(value) == 8

KvIndex(c, key) == IF \E i \in 1..Len(c) : c[i].key = key
                   THEN CHOOSE i \in 1..Len(c) : c[i].key = key ELSE 0
KvWithout(c, i) == [j \in 1..(Len(c) - 1) |-> IF j < i THEN c[j] ELSE c[j + 1]]
KvExpired(k, e) == k.now > e.expiry

\* evictLRU: the first entry of the Map among those with the fewest hits.
evictLRU(k) ==
  IF Len(k.cache) = 0 THEN k
  ELSE LET i == CHOOSE n \in 1..Len(k.cache) :
                  /\ \A j \in 1..Len(k.cache) : k.cache[n].hits <= k.cache[j].hits
                  /\ \A j \in 1..(n - 1) : k.cache[j].hits > k.cache[n].hits
       IN [k EXCEPT !.cache = KvWithout(@, i), !.totalSize = @ - k.cache[i].size,
                    !.evictions = @ + 1, !.evicted = Append(@, k.cache[i].key)]

RECURSIVE EvictForSize(_, _)
EvictForSize(k, size) ==
  IF k.totalSize + size > kvMaxSize /\ Len(k.cache) > 0
  THEN EvictForSize(evictLRU(k), size) ELSE k
RECURSIVE EvictForEntries(_)
EvictForEntries(k) ==
  IF Len(k.cache) >= k.maxEntries THEN EvictForEntries(evictLRU(k)) ELSE k

\* cleanup, run by the interval timer: the expired entries are deleted.
cleanup(k) ==
  IF k.isDestroyed THEN k
  ELSE LET gone == {i \in 1..Len(k.cache) : KvExpired(k, k.cache[i])}
           kept == SelectSeq(k.cache, LAMBDA e : ~KvExpired(k, e))
       IN [k EXCEPT !.cache = kept,
                    !.totalSize = @ - Cardinality(gone) * estimateSize(0),
                    !.evictions = @ + Cardinality(gone)]

kvGet(k, key) ==
  IF k.isDestroyed THEN [k EXCEPT !.ret = None]
  ELSE LET i == KvIndex(k.cache, key) IN
       IF i = 0 THEN [k EXCEPT !.misses = @ + 1, !.ret = None]
       ELSE IF KvExpired(k, k.cache[i])
       THEN [k EXCEPT !.cache = KvWithout(@, i), !.totalSize = @ - k.cache[i].size,
                      !.misses = @ + 1, !.ret = None]
       ELSE [k EXCEPT !.cache[i].hits = @ + 1, !.hits = @ + 1,
                      !.ret = Some(k.cache[i].value)]

kvSet(k, key, value, ttl) ==
  IF k.isDestroyed THEN k
  ELSE LET size == estimateSize(value)
           k1 == EvictForEntries(EvictForSize(k, size))
           i == KvIndex(k1.cache, key)
           e == [key |-> key, value |-> value, expiry |-> k1.now + ttl, hits |-> 0,
                 size |-> size]
       IN [k1 EXCEPT !.cache = IF i = 0 THEN Append(@, e) ELSE [@ EXCEPT ![i] = e],
                     !.totalSize = (IF i = 0 THEN @ ELSE @ - k1.cache[i].size) + size]

kvHas(k, key) ==
  IF k.isDestroyed THEN [k EXCEPT !.ret = Some(FALSE)]
  ELSE LET i == KvIndex(k.cache, key) IN
       IF i = 0 THEN [k EXCEPT !.ret = Some(FALSE)]
       ELSE IF KvExpired(k, k.cache[i])
       THEN [k EXCEPT !.cache = KvWithout(@, i), !.totalSize = @ - k.cache[i].size,
                      !.ret = Some(FALSE)]
       ELSE [k EXCEPT !.ret = Some(TRUE)]

kvDelete(k, key) ==
  IF k.isDestroyed THEN [k EXCEPT !.ret = Some(FALSE)]
  ELSE LET i == KvIndex(k.cache, key) IN
       IF i = 0 THEN [k EXCEPT !.ret = Some(FALSE)]
       ELSE [k EXCEPT !.cache = KvWithout(@, i), !.totalSize = @ - k.cache[i].size,
                      !.ret = Some(TRUE)]

kvClear(k) ==
  IF k.isDestroyed THEN k
  ELSE [k EXCEPT !.cache = <<>>, !.totalSize = 0, !.hits = 0, !.misses = 0,
                 !.evictions = 0]

kvSize(k) == [k EXCEPT !.ret = Some(Len(k.cache))]
kvKeys(k) == [k EXCEPT !.ret = Some([i \in 1..Len(k.cache) |-> k.cache[i].key])]

\* destroy: isDestroyed is set before this.clear() is called.
kvDestroy(k) ==
  IF k.isDestroyed THEN k
  ELSE kvClear([k EXCEPT !.isDestroyed = TRUE, !.cleanupInterval = FALSE])

(***************************************************************************)
(* The HTTP client (createHttpClient) serving one request at a time.       *)
(* phase is the position of request(): "fetching" at await fetch,          *)
(* "sleeping" at await sleep, "resolved" or "rejected" once the promise    *)
(* the caller holds has settled.  fetches counts the fetch calls made for  *)
(* the request and log lists the statuses of its responses.  An error is   *)
(* the class of the thrown value and its status.  The client is given at   *)
(* most one interceptor, which has only an onError hook.                   *)
(***************************************************************************)
MaxRetries == 2
MaxRequests == 2
retryDelay == 1000
HttpStatuses == {200, 404, 500, 503}
ValidateKinds == {"default", "below500"}
ErrorInterceptors == {"none", "passes", "throws"}

HttpError(status) == [class |-> "HttpError", status |-> status]
PlainError == [class |-> "Error", status |-> 0]

createHttpClient(retries) ==
  [retries |-> retries, validateStatus |-> "default", interceptor |-> "none",
   phase |-> "idle", attemptNum |-> 0, fetches |-> 0, log |-> <<>>, error |-> None,
   delay |-> 0, requests |-> 0, unread |-> FALSE]

\* The default validateStatus, or one the configuration supplies.
validateStatus(kind, status) ==
  IF kind = "default" THEN status >= 200 /\ status < 300 ELSE status < 500

\* The onError hooks applied to an error: a hook that throws replaces the
\* error by what it threw.
applyOnError(h, error) ==
  CASE h.interceptor = "none" -> error
    [] h.interceptor = "passes" -> error
    [] h.interceptor = "throws" -> PlainError

\* The catch block of request(): the promise rejects.
requestCatch(h, error) ==
  LET httpError == IF error.class = "HttpError" THEN error ELSE HttpError(0)
  IN [h EXCEPT !.phase = "rejected", !.error = Some(applyOnError(h, httpError))]

\* request(req, attemptNum) up to await fetch.
requestFetch(h, attemptNum) ==
  [h EXCEPT !.phase = "fetching", !.attemptNum = attemptNum, !.fetches = @ + 1]

\* A public method is called: request(req) with attemptNum = 0.
httpRequest(h) ==
  requestFetch([h EXCEPT !.fetches = 0, !.log = <<>>, !.error = None, !.delay = 0,
                         !.requests = @ + 1, !.unread = FALSE], 0)

\* Faulty variant of the response handling: the attempts are not counted.
requestRespondsUnbounded(h, status, readable) ==
  LET h1 == [h EXCEPT !.log = Append(@, status)] IN
  IF ~readable THEN requestCatch([h1 EXCEPT !.unread = TRUE], PlainError)
  ELSE IF ~validateStatus(h1.validateStatus, status)
  THEN IF status >= 500
       THEN [h1 EXCEPT !.phase = "sleeping", !.delay = retryDelay * (h1.attemptNum + 1)]
       ELSE requestCatch(h1, applyOnError(h1, HttpError(status)))
  ELSE [h1 EXCEPT !.phase = "resolved"]

\* fetch settled with a response; readable is whether its body could be read.
requestResponds(h, status, readable) ==
  LET h1 == [h EXCEPT !.log = Append(@, status)] IN
  IF ~readable THEN requestCatch([h1 EXCEPT !.unread = TRUE], PlainError)
  ELSE IF ~validateStatus(h1.validateStatus, status)
  THEN LET currentError == applyOnError(h1, HttpError(status)) IN
       IF h1.attemptNum < h1.retries /\ status >= 500
       THEN [h1 EXCEPT !.phase = "sleeping", !.delay = retryDelay * (h1.attemptNum + 1)]
       ELSE requestCatch(h1, currentError)
  ELSE [h1 EXCEPT !.phase = "resolved"]

\* fetch rejected: the network failed or the request was aborted.
requestFetchFails(h) == requestCatch(h, PlainError)

\* sleep is over: return request(req, attemptNum + 1).
requestRetries(h) == requestFetch(h, h.attemptNum + 1)

(***************************************************************************)
ListenerIds == 1..4
SelectorIds == 1..2

InitCore(S) ==
  /\ state = [s \in S |-> InitialState]
  /\ isDestroyed = [s \in S |-> FALSE]
  /\ listeners = [s \in S |-> <<>>]
  /\ cache = [s \in S |-> <<>>]
  /\ stateVersion = [s \in S |-> 0]
  /\ hasPendingNotification = [s \in S |-> FALSE]
  /\ notificationPrevState = [s \in S |-> None]
  /\ batchDepth = 0
  /\ pendingNotifications = <<>>
  /\ lastOp = Op("createStore", 0, 0)
  /\ ret = [thrown |-> FALSE, val |-> None]
  /\ trace = <<>>
  /\ batchPrev = [s \in S |-> None]
  /\ innerSeen = FALSE
  /\ muts = [s \in S |-> {}]
  /\ closedBatch = None
  /\ selected = [s \in S |-> {}]
  /\ lru = [clock |-> 0, hits |-> 0, touch |-> [k \in 1..CacheSelectors |-> 0]]
  /\ sched = <<>>
  /\ subs = [s \in S |-> [calls |-> 0,
                           open |-> [l \in ListenerIds |-> 0],
                           called |-> [l \in ListenerIds |-> 0], live |-> {}, late |-> {},
                           time |-> [l \in ListenerIds |-> 0]]]
  /\ tasks = [frames |-> <<>>, awaiting |-> [batch |-> 0, batchAsync |-> 0], order |-> <<>>]
  /\ lazy = LazyCache
  /\ kv = createCache(KvMaxEntries)
  /\ broken = {}

InitStores(S) ==
  /\ InitCore(S)
  /\ equalityFn \in [S -> EqKinds]
  /\ arg = None
  /\ form = createFormControl(0, <<>>, "blur")
  /\ http = createHttpClient(0)

Init == InitStores({1})



(***************************************************************************)
(* Batches nested in batches around setState calls, with the history of    *)
(* where in the outermost batch each mutation was accepted.                *)
(***************************************************************************)
NextNested ==
  \/ \E s \in StoreIds, u \in Updaters :
       stateVersion[s] < NestedMaxVersion /\ SetState(s, u) /\ TrackMuts(s) /\ UNCHANGED <<lru, subs, tasks, arg, form, lazy, kv, http, broken>>
  \/ \E s \in StoreIds, l \in ListenerIds : Subscribe(s, l) /\ UNCHANGED <<muts, lru, subs, tasks, arg, form, lazy, kv, http, broken>>
  \/ BatchEnter /\ UNCHANGED <<muts, lru, subs, tasks, arg, form, lazy, kv, http, broken>>
  \/ BatchExit /\ (muts' = IF batchDepth = 1 THEN [s \in StoreIds |-> {}] ELSE muts) /\ UNCHANGED <<lru, subs, tasks, arg, form, lazy, kv, http, broken>>

SpecNested == Init /\ [][NextNested]_vars

(***************************************************************************)
(* The selector cache under load: one store, CacheSelectors selectors.     *)
(* select is called with the lowest-numbered selector that is not cached   *)
(* (never selected, evicted or dropped by an invalidation) or with any     *)
(* cached one among the first HotSelectors; lru.touch[k] is the time of    *)
(* the last select(k) while k has stayed cached, 0 when k is not cached.   *)
(***************************************************************************)
CacheKeys(c) == {c[i].sel : i \in 1..Len(c)}
Uncached(s) == (1..CacheSelectors) \ CacheKeys(cache[s])

TrackTouch(s, sel, hit) ==
  lru' = [clock |-> lru.clock + 1,
          hits |-> lru.hits + (IF hit THEN 1 ELSE 0),
          touch |-> [k \in 1..CacheSelectors |->
                       IF k = sel THEN lru.clock + 1
                       ELSE IF k \in CacheKeys(cache'[s]) THEN lru.touch[k] ELSE 0]]

SelectUncached(s) ==
  /\ lru.clock < MaxClock
  /\ Uncached(s) # {}
  /\ LET sel == CHOOSE k \in Uncached(s) : \A j \in Uncached(s) : k <= j
     IN Select(s, sel) /\ TrackTouch(s, sel, FALSE)
  /\ UNCHANGED <<muts, subs, tasks, arg, form, lazy, kv, http>>

SelectCached(s, sel) ==
  /\ lru.clock < MaxClock
  /\ lru.hits < MaxHits
  /\ sel \in CacheKeys(cache[s])
  /\ Select(s, sel) /\ TrackTouch(s, sel, TRUE)
  /\ UNCHANGED <<muts, subs, tasks, arg, form, lazy, kv, http>>

\* An accepted mutation empties the cache: no selector stays cached, and the
\* clock restarts with the empty cache.
MutateUnderLoad(s, u) ==
  /\ stateVersion[s] < MaxVersion
  /\ SetState(s, u)
  /\ lru' = IF cache'[s] = <<>> /\ cache[s] # <<>>
            THEN [lru EXCEPT !.clock = 0, !.touch = [k \in 1..CacheSelectors |-> 0]] ELSE lru
  /\ UNCHANGED <<muts, subs, tasks, arg, form, lazy, kv, http>>

NextCache ==
  \/ \E s \in StoreIds : SelectUncached(s) /\ UNCHANGED broken
  \/ \E s \in StoreIds, sel \in 1..HotSelectors : SelectCached(s, sel) /\ UNCHANGED broken
  \/ \E s \in StoreIds, u \in {[kind |-> "fn", p |-> <<>>, f |-> "incA"]} : MutateUnderLoad(s, u) /\ UNCHANGED broken

SpecCache == Init /\ [][NextCache]_vars

(***************************************************************************)
(* Two stores under batch and batchAsync calls whose functions return,     *)
(* throw, or hand back a promise.  tasks.frames is the call stack of the   *)
(* batch functions that are running: the kind of call, the depth before it *)
(* (base) and the number of promises of batches started inside it that     *)
(* have not settled (inner).  tasks.awaiting counts the promises that have *)
(* not settled; a promise's callback runs when the call stack is empty.    *)
(* tasks.order is the history of the stores in the order of their first    *)
(* accepted mutation since the depth left 0.  Store 1 is given listeners   *)
(* 1 and 3, store 2 listener 1.                                            *)
(***************************************************************************)
AsyncListeners == {1, 3}
AsyncUpdaters ==
  {[kind |-> "patch", p |-> [k \in {"a"} |-> v], f |-> "-"] : v \in Vals}
    \cup {[kind |-> "fn", p |-> <<>>, f |-> "incA"]}

Frame(kind) == [kind |-> kind, base |-> batchDepth, inner |-> 0]
Top == tasks.frames[Len(tasks.frames)]
\* The stack after the running function ended, leaving n more promises unsettled.
PopWith(n) ==
  LET rest == SubSeq(tasks.frames, 1, Len(tasks.frames) - 1)
  IN IF rest = <<>> THEN rest ELSE [rest EXCEPT ![Len(rest)].inner = @ + Top.inner + n]
Pop == PopWith(0)
PopAwaiting == PopWith(1)
AsyncPosition == IF tasks.frames = <<>> THEN "awaited" ELSE "sync"

\* The histories of the coalescing window over a step that ends in world w.
Window(w) ==
  /\ batchPrev' = IF w.batchDepth = 0 THEN [s \in StoreIds |-> None] ELSE batchPrev
  /\ innerSeen' = IF w.batchDepth = 0 THEN FALSE ELSE innerSeen
  /\ muts' = IF w.batchDepth = 0 THEN [s \in StoreIds |-> {}] ELSE muts
  /\ UNCHANGED <<lru, subs, arg, form, lazy, kv, http>>
Order(w) == IF w.batchDepth = 0 THEN <<>> ELSE tasks.order

MutateInTask(s, u) ==
  /\ stateVersion[s] < MaxVersion
  /\ SetState(s, u)
  /\ muts' = IF batchDepth > 0 /\ Accepted(trace', s)
             THEN [muts EXCEPT ![s] = @ \cup {AsyncPosition}] ELSE muts
  /\ tasks' = IF batchDepth > 0 /\ Accepted(trace', s) /\ batchPrev[s] = None
              THEN [tasks EXCEPT !.order = Append(@, s)] ELSE tasks
  /\ UNCHANGED <<lru, subs, arg, form, lazy, kv, http>>

\* batch(fn) is called: startBatch, then fn runs.
BatchCall ==
  /\ BatchEnter
  /\ tasks' = [tasks EXCEPT !.frames = Append(@, Frame("batch"))]
  /\ UNCHANGED <<muts, lru, subs, arg, form, lazy, kv, http>>

\* fn returned a value that is not a promise (batch.ts:519-520).
BatchReturns ==
  /\ tasks.frames # <<>> /\ Top.kind = "batch"
  /\ LET w == endBatch(World) IN
       /\ Commit(w, Op("batchExit", 0, 0)) /\ Window(w)
       /\ tasks' = [tasks EXCEPT !.frames = Pop, !.order = Order(w)]

\* fn threw (batch.ts:521-524).
BatchThrows ==
  /\ tasks.frames # <<>> /\ Top.kind = "batch"
  /\ LET w == batchCatch(World) IN
       /\ Commit(w, Op("batchThrow", 0, 0)) /\ Window(w)
       /\ tasks' = [tasks EXCEPT !.frames = Pop, !.order = Order(w)]

\* fn returned a promise (batch.ts:514-517).
BatchReturnsPromise ==
  /\ tasks.frames # <<>> /\ Top.kind = "batch"
  /\ LET w == batchPromise(World) IN
       /\ Commit(w, Op("batchPromise", 0, 0)) /\ Window(w)
       /\ tasks' = [tasks EXCEPT !.frames = PopAwaiting, !.awaiting.batch = @ + 1]

\* The promise fn returned settles: its finally callback runs.
PromiseSettles(rejected) ==
  /\ tasks.frames = <<>> /\ tasks.awaiting.batch > 0
  /\ LET w == batchFinally(World, rejected) IN
       /\ Commit(w, Op("settle", 0, IF rejected THEN 1 ELSE 0)) /\ Window(w)
       /\ tasks' = [tasks EXCEPT !.awaiting.batch = @ - 1, !.order = Order(w)]

\* batchAsync(fn) is called: startBatch, then fn runs up to its first await.
BatchAsyncCall ==
  /\ batchDepth < MaxDepth
  /\ LET w == startBatch(World) IN
       /\ Commit(w, Op("batchAsyncEnter", 0, 0)) /\ Window(w)
       /\ tasks' = [tasks EXCEPT !.frames = Append(@, Frame("batchAsync"))]

\* fn threw before handing back a promise: the catch block runs at once.
BatchAsyncThrows ==
  /\ tasks.frames # <<>> /\ Top.kind = "batchAsync"
  /\ LET w == batchAsyncCatch(World) IN
       /\ Commit(w, Op("batchAsyncThrow", 0, 1)) /\ Window(w)
       /\ tasks' = [tasks EXCEPT !.frames = Pop, !.order = Order(w)]

\* fn handed back its promise (or a value): batchAsync waits at the await.
BatchAsyncAwaits ==
  /\ tasks.frames # <<>> /\ Top.kind = "batchAsync"
  /\ Commit(World, Op("batchAsyncAwait", 0, 0)) /\ Window(World)
  /\ tasks' = [tasks EXCEPT !.frames = PopAwaiting, !.awaiting.batchAsync = @ + 1]

\* The awaited promise settles: batchAsync resumes (batch.ts:534-540).
BatchAsyncResumes(rejected) ==
  /\ tasks.frames = <<>> /\ tasks.awaiting.batchAsync > 0
  /\ LET w == batchAsyncResume(World, rejected) IN
       /\ Commit(w, Op("batchAsyncSettle", 0, IF rejected THEN 1 ELSE 0)) /\ Window(w)
       /\ tasks' = [tasks EXCEPT !.awaiting.batchAsync = @ - 1, !.order = Order(w)]


\* Both stores are created with the default equality function.
InitAsync == InitStores({1, 2}) /\ equalityFn = [s \in {1, 2} |-> "shallow"]


(***************************************************************************)
(* Subscriptions with their closures.  For store s and listener l,         *)
(* subs[s].open[l] counts the closures subscribe(l) returned that have not *)
(* been called, .called[l] those that have; l is in .live when the last    *)
(* of the subscribe(l) calls and closure calls was a subscribe, .time[l]   *)
(* is the number of the subscribe call that made it so, and l is in .late  *)
(* when its closure was called while a flush of the store was pending.     *)
(***************************************************************************)
SubscribeTracked(s, l) ==
  /\ subs[s].calls < MaxSubscribes
  /\ Subscribe(s, l)
  /\ subs' = IF isDestroyed[s] THEN subs
             ELSE [subs EXCEPT ![s] =
                    [calls |-> @.calls + 1,
                     open |-> [@.open EXCEPT ![l] = @ + 1],
                     called |-> @.called,
                     live |-> @.live \cup {l},
                     late |-> @.late \ {l},
                     time |-> IF l \in @.live THEN @.time
                              ELSE [@.time EXCEPT ![l] = subs[s].calls + 1]]]
  /\ UNCHANGED <<muts, lru, tasks, arg, form, lazy, kv, http>>

\* A closure is called for the first time.
UnsubscribeFirst(s, l) ==
  /\ subs[s].open[l] > 0
  /\ Commit(UnsubscribeW(World, s, l), Op("unsubscribe", s, l))
  /\ subs' = [subs EXCEPT ![s].open[l] = @ - 1,
                          ![s].called[l] = @ + 1,
                          ![s].live = @ \ {l},
                          ![s].late = IF hasPendingNotification[s] /\ l \in subs[s].live
                                      THEN @ \cup {l} ELSE @]
  /\ UNCHANGED <<batchPrev, innerSeen, muts, lru, tasks, arg, form, lazy, kv, http>>

\* A closure that has been called before is called again.
UnsubscribeAgain(s, l) ==
  /\ subs[s].called[l] > 0
  /\ Commit(UnsubscribeW(World, s, l), Op("unsubscribeAgain", s, l))
  /\ subs' = [subs EXCEPT ![s].live = @ \ {l}]
  /\ UNCHANGED <<batchPrev, innerSeen, muts, lru, tasks, arg, form, lazy, kv, http>>



(***************************************************************************)
(* Reading the events of a step.                                           *)
(***************************************************************************)
IsCall(e, s, l) == e.ev = "call" /\ e.st = s /\ e.l = l
CountCalls(tr, s, l) == Cardinality({i \in 1..Len(tr) : IsCall(tr[i], s, l)})
NoCalls(tr) == \A i \in 1..Len(tr) : tr[i].ev # "call"
Has(tr, ev, s) == \E i \in 1..Len(tr) : tr[i].ev = ev /\ tr[i].st = s
\* Some listener called back into a store (setState, destroy) while it ran.
Reentered(tr) == \E i \in 1..Len(tr) : tr[i].ev = "reenter"
\* Listener l of store s was called exactly once, with (next, prev).
DeliveredOnce(tr, s, l, next, prev) ==
  /\ CountCalls(tr, s, l) = 1
  /\ \A i \in 1..Len(tr) : IsCall(tr[i], s, l) => tr[i].next = next /\ tr[i].prev = prev
\* Every listener registered in ls was called exactly once, with (next, prev).
AllDeliveredOnce(tr, s, ls, next, prev) ==
  \A i \in 1..Len(ls) : DeliveredOnce(tr, s, ls[i], next, prev)

\* The step closes the outermost batch.
ClosesBatch == lastOp'.op = "batchExit" /\ batchDepth' = 0
\* Store s is live and had a mutation accepted inside the open batch.
MutatedInBatch(s) == batchPrev[s] # None /\ ~isDestroyed[s]

(***************************************************************************)
(* C1.  N >= 1 setState calls inside one synchronous batch, one of them    *)
(* accepted: no listener runs while the batch is open; when it closes each *)
(* subscribed listener is called exactly once with (snapshot after the     *)
(* last call, snapshot before the first accepted call), and getState()     *)
(* returns the snapshot after the last call.                               *)
(***************************************************************************)
C1_Delivery(s) ==
  /\ AllDeliveredOnce(trace', s, listeners[s], state[s], batchPrev[s][1])
  /\ ~isDestroyed'[s]
  /\ state'[s] = state[s]

C1_BatchCoalesces_Step ==
     /\ batchDepth' > 0 => NoCalls(trace')
     /\ (ClosesBatch /\ ~Reentered(trace')) =>
          \A s \in StoreIds : MutatedInBatch(s) => C1_Delivery(s)

IdleSetState == lastOp'.op = "setState" /\ batchDepth = 0 /\ ~isDestroyed[lastOp'.st]

C2_Rejected(s) ==
  /\ ApplyEquality(equalityFn[s], state[s], trace'[1].next)
  /\ NoCalls(trace')
  /\ state'[s] = state[s]
C2_Accepted(s) ==
  /\ ~ApplyEquality(equalityFn[s], state[s], trace'[1].next)
  /\ AllDeliveredOnce(trace', s, listeners[s], trace'[1].next, state[s])

C2_ImmediateNotify_Step ==
     IdleSetState =>
       LET s == lastOp'.st IN
         IF trace'[1].ev = "reject" THEN C2_Rejected(s)
         ELSE ~Reentered(trace') => C2_Accepted(s) /\ state'[s] = trace'[1].next

InnerReturns == lastOp'.op = "batchExit" /\ batchDepth' > 0

C3_InnerSilent ==
  /\ trace' = <<>>
  /\ pendingNotifications' = pendingNotifications
  /\ hasPendingNotification' = hasPendingNotification
  /\ notificationPrevState' = notificationPrevState
  /\ state' = state

FlushRuns(s) ==
  \/ lastOp'.op = "setState" /\ lastOp'.st = s /\ batchDepth = 0 /\ Has(trace', "accept", s)
  \/ ClosesBatch /\ \E i \in 1..Len(pendingNotifications) : pendingNotifications[i] = s
\* The snapshot before the first accepted setState of the window the flush ends.
WindowStart(s) == IF batchDepth = 0 THEN state[s] ELSE batchPrev[s][1]
\* Every call of a listener of s passed the snapshot current at that moment.
CallsPassCurrent(tr, s) ==
  \A i \in 1..Len(tr) : (tr[i].ev = "call" /\ tr[i].st = s) => tr[i].next = tr[i].cur

C4_Pairs(s) ==
  /\ AllDeliveredOnce(trace', s, listeners[s], state'[s], WindowStart(s))
  /\ CallsPassCurrent(trace', s)

C4_FlushPair_Step ==
     \A s \in StoreIds : (FlushRuns(s) /\ ~Reentered(trace')) => C4_Pairs(s)

CountEv(tr, ev, s) == Cardinality({i \in 1..Len(tr) : tr[i].ev = ev /\ tr[i].st = s})
VersionKept(s) == stateVersion'[s] = stateVersion[s]

C5_Version_Step ==
     \A s \in StoreIds :
       /\ stateVersion'[s] >= stateVersion[s]
       /\ stateVersion'[s] = stateVersion[s] + CountEv(trace', "accept", s)
       /\ lastOp'.op \in {"getState", "select", "subscribe", "unsubscribe", "destroy", "batchEnter"}
            => VersionKept(s)
       /\ (lastOp'.op = "setState" /\ lastOp'.st = s /\ (isDestroyed[s] \/ trace'[1].ev = "reject"))
            => VersionKept(s)
       /\ (lastOp'.op = "setState" /\ lastOp'.st = s /\ trace'[1].ev = "accept" /\ ~Reentered(trace'))
            => stateVersion'[s] = stateVersion[s] + 1
       /\ (lastOp'.op = "batchExit" /\ ~Reentered(trace')) => VersionKept(s)

\* C5: the version rises by exactly one per accepted setState and is left
\* unchanged by a rejected setState, getState, select, subscribe,
\* unsubscribe, a flush and destroy.  The property of a step is
\* C5_Version_Step; no step records C5 in broken.
C5_Version == "C5" \notin broken

\* A second mutation has just been accepted and its flush has run.
C5_Witness ==
  /\ lastOp.op = "setState" /\ stateVersion[1] = 2 /\ Len(listeners[1]) = 1
  /\ Len(trace) = 2 /\ trace[1].ev = "accept" /\ trace[2].ev = "call"

(***************************************************************************)
(* C6.  Two select(s) calls on a live store with no accepted setState      *)
(* between them call s once: the second returns the cached value without   *)
(* calling s.  (The cache holds 50 selectors; the callers here use two, so *)
(* none is evicted.)                                                       *)
(***************************************************************************)
C6_CacheHit_Step ==
     (lastOp'.op = "select" /\ ~ret'.thrown /\ lastOp'.id \in selected[lastOp'.st]) =>
       /\ ~Has(trace', "selector", lastOp'.st)
       /\ ret'.val = Some(SelApply(lastOp'.id, state[lastOp'.st]))

\* C6: a select call that finds the selector cached at the current version
\* returns the cached value without calling the selector.  The property of a
\* step is C6_CacheHit_Step; no step records C6 in broken.
C6_CacheHit == "C6" \notin broken

\* select has just answered from the cache, after another selector was
\* evaluated, with a value computed on a mutated snapshot.
C6_Witness ==
  /\ lastOp.op = "select" /\ lastOp.id = 1 /\ ~ret.thrown /\ trace = <<>>
  /\ ret.val = Some(1) /\ selected[1] = {1, 2} /\ stateVersion[1] > 0

(***************************************************************************)
(* C7.  select(s) returns what s yields on the current snapshot: a value   *)
(* cached before an accepted setState is never returned after it, also     *)
(* inside an open batch before the flush; a cached value is returned only  *)
(* when its version stamp equals the store's current version.              *)
(***************************************************************************)
C7_SelectCurrent_Step ==
     (lastOp'.op = "select" /\ ~ret'.thrown) =>
       LET s == lastOp'.st
           sel == lastOp'.id
       IN /\ ret'.val = Some(SelApply(sel, state'[s]))
          /\ ~Has(trace', "selector", s) =>
               \E i \in 1..Len(cache[s]) :
                 /\ cache[s][i].sel = sel
                 /\ cache[s][i].value = ret'.val[1]
                 /\ cache[s][i].stateVersion = stateVersion[s]

\* C7: select returns what the selector yields on the current snapshot, and a
\* cached value is returned only when its version stamp equals the current
\* version.  The property of a step is C7_SelectCurrent_Step; no step records
\* C7 in broken.
C7_SelectCurrent == "C7" \notin broken

\* Inside an open batch whose flush is pending, after two accepted
\* mutations, select has just evaluated the selector on the new snapshot.
C7_Witness ==
  /\ lastOp.op = "select" /\ lastOp.id = 1 /\ ~ret.thrown
  /\ batchDepth > 0 /\ hasPendingNotification[1] /\ stateVersion[1] = 2
  /\ Has(trace, "selector", 1) /\ ret.val = Some(1) /\ state[1]["a"] = 1

(***************************************************************************)
(* C9.  After destroy(), getState, subscribe and select throw; setState    *)
(* returns without throwing, leaves the snapshot and the version           *)
(* unchanged, calls no listener and schedules no flush.                    *)
(***************************************************************************)
C9_Destroyed_Step ==
     \A s \in StoreIds : (isDestroyed[s] /\ lastOp'.st = s) =>
       /\ lastOp'.op \in {"getState", "subscribe", "select"} => ret'.thrown
       /\ lastOp'.op = "setState" =>
            /\ ~ret'.thrown
            /\ state'[s] = state[s]
            /\ stateVersion'[s] = stateVersion[s]
            /\ NoCalls(trace')
            /\ pendingNotifications' = pendingNotifications
            /\ hasPendingNotification' = hasPendingNotification

\* C9: on a destroyed store getState, subscribe and select throw, and
\* setState returns without throwing, changing the snapshot or the version,
\* calling a listener or scheduling a flush.  The property of a step is
\* C9_Destroyed_Step; no step records C9 in broken.
C9_Destroyed == "C9" \notin broken

\* setState has just been called on a destroyed store that had been
\* mutated and had a flush pending in an open batch.
C9_Witness ==
  /\ lastOp.op = "setState" /\ isDestroyed[1] /\ ~ret.thrown
  /\ Len(trace) = 1 /\ trace[1].ev = "warn"
  /\ batchDepth > 0 /\ hasPendingNotification[1] /\ state[1] # InitialState

(***************************************************************************)
(* C10.  destroy() empties the listener registry (getListenerCount() is 0) *)
(* and the selector cache; a second and any later destroy() throws nothing *)
(* and changes no state.                                                   *)
(***************************************************************************)
C10_DestroyIdempotent_Step ==
     lastOp'.op = "destroy" =>
       LET s == lastOp'.st
       IN /\ ~ret'.thrown
          /\ isDestroyed'[s]
          /\ listeners'[s] = <<>> /\ getListenerCount(World', s) = 0
          /\ cache'[s] = <<>>
          /\ isDestroyed[s] => UNCHANGED progVars

\* C10: destroy empties the listener registry and the selector cache, and a
\* later destroy throws nothing and changes no state.  The property of a step
\* is C10_DestroyIdempotent_Step; no step records C10 in broken.
C10_DestroyIdempotent == "C10" \notin broken

\* destroy() has just been called on a store that was already destroyed.
C10_Witness ==
  /\ lastOp.op = "destroy" /\ isDestroyed[1] /\ ~ret.thrown /\ trace = <<>>

(***************************************************************************)
(* C8.  The selector cache never holds more than 50 entries; when select   *)
(* inserts a new selector while 50 are cached, exactly one entry is        *)
(* evicted, the one least recently touched (inserted or hit through        *)
(* select): an entry inserted first but re-accessed since is not evicted.  *)
(***************************************************************************)
\* The cached selector that select touched longest ago.
LeastRecentlyTouched(s) ==
  CHOOSE k \in CacheKeys(cache[s]) : \A j \in CacheKeys(cache[s]) : lru.touch[k] <= lru.touch[j]

C8_LruBound ==
  [][\A s \in StoreIds :
       /\ Len(cache'[s]) <= 50
       /\ Cardinality(CacheKeys(cache'[s])) = Len(cache'[s])
       /\ (lastOp'.op = "select" /\ lastOp'.st = s /\ ~ret'.thrown
             /\ lastOp'.id \notin CacheKeys(cache[s]) /\ Len(cache[s]) = 50) =>
            /\ Len(cache'[s]) = 50
            /\ CacheKeys(cache'[s]) =
                 (CacheKeys(cache[s]) \ {LeastRecentlyTouched(s)}) \cup {lastOp'.id}]_vars

\* select has just inserted a selector into the full cache: selector 1,
\* inserted first and hit again later, is still cached; selector 2 is gone.
C8_Witness ==
  /\ lastOp.op = "select" /\ Len(cache[1]) = 50 /\ Has(trace, "selector", 1)
  /\ lru.hits = 1
  /\ 1 \in CacheKeys(cache[1]) /\ 2 \notin CacheKeys(cache[1])
  /\ lastOp.id \in CacheKeys(cache[1])
  /\ lru.touch[1] > 1 /\ lru.touch[1] < lru.touch[lastOp.id]

(***************************************************************************)
(* C11.  At every observation point getListenerCount() equals the number   *)
(* of subscribe calls whose closure has not been called, for every         *)
(* sequence of subscribe and unsubscribe calls on a live store, the        *)
(* listener functions possibly repeating.                                  *)
(***************************************************************************)
RECURSIVE SumOver(_, _)
SumOver(f, D) == IF D = {} THEN 0 ELSE LET x == CHOOSE x \in D : TRUE IN f[x] + SumOver(f, D \ {x})
\* The subscribe calls of store s whose closure has not been called.
OpenClosures(s) == SumOver(subs[s].open, ListenerIds)
\* No listener function was passed to subscribe of store s more than once.
NoRepeat(s) == \A l \in ListenerIds : subs[s].open[l] + subs[s].called[l] <= 1

\* C11 as claimed, the listener functions possibly repeating.
C11_Original ==
  \A s \in StoreIds : ~isDestroyed[s] => getListenerCount(World, s) = OpenClosures(s)

\* C11, amended: the count is the number of distinct listener functions
\* registered (subscribed, and no closure for the function called since);
\* it is the number of uncalled closures when no function was passed to
\* subscribe more than once.
C11_ListenerCount ==
  \A s \in StoreIds : ~isDestroyed[s] =>
    /\ getListenerCount(World, s) = Cardinality(subs[s].live)
    /\ NoRepeat(s) => getListenerCount(World, s) = OpenClosures(s)

\* Three distinct listeners were subscribed and one closure was called.
C11_Witness ==
  /\ ~isDestroyed[1] /\ subs[1].calls = 3 /\ NoRepeat(1)
  /\ subs[1].called[1] = 1 /\ OpenClosures(1) = 2 /\ getListenerCount(World, 1) = 2

(***************************************************************************)
(* C12.  The closure subscribe returns is idempotent: its first call       *)
(* removes the registration, every later call leaves the registry and      *)
(* getListenerCount() unchanged, whatever subscribe calls came in between. *)
(***************************************************************************)
Registered(ls, l) == \E i \in 1..Len(ls) : ls[i] = l
Without(ls, l) == SelectSeq(ls, LAMBDA x : x # l)
RegistryKept(s) ==
  /\ listeners'[s] = listeners[s]
  /\ getListenerCount(World', s) = getListenerCount(World, s)

\* C12 as claimed, whatever subscribe calls came in between.
C12_Original ==
  [][/\ lastOp'.op = "unsubscribe" => ~Registered(listeners'[lastOp'.st], lastOp'.id)
     /\ lastOp'.op = "unsubscribeAgain" => RegistryKept(lastOp'.st)]_vars

\* C12, amended: a later call leaves the registry unchanged provided the
\* same listener function was not passed to subscribe again in between; when
\* it was, the later call removes that registration.
C12_ClosureIdempotent_Step ==
     LET s == lastOp'.st
         l == lastOp'.id
     IN /\ lastOp'.op = "unsubscribe" => listeners'[s] = Without(listeners[s], l)
        /\ (lastOp'.op = "unsubscribeAgain" /\ l \notin subs[s].live) => RegistryKept(s)
        /\ (lastOp'.op = "unsubscribeAgain" /\ l \in subs[s].live /\ ~isDestroyed[s]) =>
             /\ Registered(listeners[s], l)
             /\ listeners'[s] = Without(listeners[s], l)

\* C12: the first call of the closure removes the listener, and a later call
\* leaves the registry unchanged provided the same listener function was not
\* passed to subscribe again in between.  The property of a step is
\* C12_ClosureIdempotent_Step; no step records C12 in broken.
C12_ClosureIdempotent == "C12" \notin broken

\* The closure of listener 1 has just been called again, after listener 2
\* was subscribed; listener 2 is still registered.
C12_Witness ==
  /\ lastOp.op = "unsubscribeAgain" /\ lastOp.id = 1 /\ ~isDestroyed[1]
  /\ subs[1].called[1] = 1 /\ subs[1].open[1] = 0
  /\ subs[1].time[2] > subs[1].time[1] /\ subs[1].time[1] > 0
  /\ listeners[1] = <<2>>

(***************************************************************************)
(* C13.  Once the closure subscribe returned has been called, the listener *)
(* is not called by any later flush, also not by a flush that was pending  *)
(* (a mutation accepted inside an open batch) when it was unsubscribed.    *)
(* A listener counts as unsubscribed until it is passed to subscribe again. *)
(***************************************************************************)
C13_NoCallAfterUnsubscribe_Step ==
     \A i \in 1..Len(trace') :
       trace'[i].ev = "call" => trace'[i].l \in subs[trace'[i].st].live

\* C13: a listener whose closure has been called is not called by any later
\* flush until it is passed to subscribe again.  The property of a step is
\* C13_NoCallAfterUnsubscribe_Step; no step records C13 in broken.
C13_NoCallAfterUnsubscribe == "C13" \notin broken

\* The batch has just closed: listener 1 was called, listener 2, whose
\* closure was called while the flush was pending, was not.
C13_Witness ==
  /\ lastOp.op = "batchExit" /\ batchDepth = 0
  /\ 2 \in subs[1].late /\ 2 \notin subs[1].live
  /\ CountCalls(trace, 1, 1) = 1 /\ CountCalls(trace, 1, 2) = 0

(***************************************************************************)
(* C20.  Within one flush the listeners are called in the order in which   *)
(* subscribe registered them; a listener unsubscribed and subscribed again *)
(* has the position of its latest registration.                            *)
(***************************************************************************)
C20_RegistrationOrder_Step ==
     \A i, j \in 1..Len(trace') :
       (/\ i < j
        /\ trace'[i].ev = "call" /\ trace'[j].ev = "call"
        /\ trace'[i].st = trace'[j].st /\ trace'[i].lvl = trace'[j].lvl) =>
         subs[trace'[i].st].time[trace'[i].l] < subs[trace'[j].st].time[trace'[j].l]

\* C20: within one flush the listeners are called in the order of their
\* latest registration.  The property of a step is
\* C20_RegistrationOrder_Step; no step records C20 in broken.
C20_RegistrationOrder == "C20" \notin broken

\* A flush has just called listener 2 and then listener 1, which had been
\* subscribed first, unsubscribed and subscribed again.
C20_Witness ==
  /\ lastOp.op \in {"setState", "batchExit"} /\ listeners[1] = <<2, 1>>
  /\ subs[1].called[1] = 1 /\ subs[1].open[1] = 1 /\ subs[1].time[1] = 3 /\ subs[1].time[2] = 2
  /\ Len(trace) >= 2
  /\ \E i, j \in 1..Len(trace) : i < j /\ IsCall(trace[i], 1, 2) /\ IsCall(trace[j], 1, 1)

(***************************************************************************)
(* Reading batch steps.                                                    *)
(***************************************************************************)
\* Every unit of depth belongs to a running batch function or to a promise
\* that has not settled.
DepthAccounted ==
  batchDepth = Len(tasks.frames) + tasks.awaiting.batch + tasks.awaiting.batchAsync
\* The step brings the depth back to 0.
ClosesDepth == batchDepth > 0 /\ batchDepth' = 0
\* The executions of queued thunks in the step's log.
DrainRuns(sc) == SelectSeq(sc, LAMBDA e : e.ev = "run" /\ e.lvl = 0)
Queued(s) == Cardinality({i \in 1..Len(pendingNotifications) : pendingNotifications[i] = s})
RunsOf(sc, s) == Cardinality({i \in 1..Len(DrainRuns(sc)) : DrainRuns(sc)[i].st = s})
\* The flush of store s ran once for the window, handing the listeners it
\* called the window's pair; each registered listener was called once unless
\* a listener called back into the store.
Delivered(s) ==
  /\ RunsOf(sched', s) = 1
  /\ \A i \in 1..Len(trace') :
       (trace'[i].ev = "call" /\ trace'[i].st = s /\ trace'[i].lvl = 0) =>
         trace'[i].next = state[s] /\ trace'[i].prev = batchPrev[s][1]
  /\ ~Reentered(trace') => AllDeliveredOnce(trace', s, listeners[s], state[s], batchPrev[s][1])
\* A step leaves alone the snapshot of a store in which it accepted no mutation.
SnapshotsKept == \A s \in StoreIds : ~Has(trace', "accept", s) => state'[s] = state[s]

(***************************************************************************)
(* C14.  When the function passed to batch returns a promise, the depth    *)
(* stays elevated after batch returns and is decremented exactly once when *)
(* the promise settles, fulfilled or rejected; setState calls made in      *)
(* between, before or after an await, call no listener until then and are  *)
(* delivered as one notification per store when the depth returns to 0.    *)
(***************************************************************************)
C14_PromiseBatch_Step ==
     /\ lastOp'.op = "batchPromise" =>
          /\ batchDepth' = batchDepth /\ batchDepth' > 0
          /\ trace' = <<>> /\ sched' = <<>>
          /\ pendingNotifications' = pendingNotifications
     /\ lastOp'.op = "settle" =>
          /\ batchDepth' = batchDepth - 1
          /\ ret'.thrown = (lastOp'.id = 1)
     /\ DepthAccounted'
     /\ batchDepth' > 0 => NoCalls(trace')
     /\ ClosesDepth => \A s \in StoreIds : MutatedInBatch(s) => Delivered(s)

\* C14: when the function passed to batch returns a promise the depth stays
\* elevated until the promise settles and falls exactly once then, and the
\* mutations accepted in between are delivered as one notification per store
\* when the depth returns to 0.  The property of a step is
\* C14_PromiseBatch_Step; no step records C14 in broken.
C14_PromiseBatch == "C14" \notin broken

\* The promise of a batch has just rejected and the depth is back at 0:
\* store 1, mutated before the function returned, and store 2, mutated
\* after, have each notified their listener once.
C14_Witness ==
  /\ lastOp.op = "settle" /\ lastOp.id = 1 /\ ret.thrown /\ batchDepth = 0
  /\ closedBatch # None
  /\ closedBatch[1].muts[1] = {"sync"} /\ closedBatch[1].muts[2] = {"awaited"}
  /\ listeners[1] = <<1>> /\ listeners[2] = <<1>>
  /\ CountCalls(trace, 1, 1) = 1 /\ CountCalls(trace, 2, 1) = 1
  /\ \A i \in 1..Len(trace) : trace[i].next # trace[i].prev

(***************************************************************************)
(* C15.  batchAsync(fn) increments the depth once and decrements it        *)
(* exactly once, whether fn's promise fulfils, rejects, or fn throws       *)
(* synchronously; on failure the decrement, and the drain of the queue if  *)
(* the depth reaches 0, happen before the caller can see the rejection.    *)
(***************************************************************************)
C15_BatchAsync_Step ==
     /\ lastOp'.op = "batchAsyncEnter" => batchDepth' = batchDepth + 1
     /\ lastOp'.op = "batchAsyncAwait" => batchDepth' = batchDepth /\ trace' = <<>> /\ ~ret'.thrown
     /\ lastOp'.op \in {"batchAsyncThrow", "batchAsyncSettle"} =>
          /\ batchDepth' = batchDepth - 1
          /\ ret'.thrown = (lastOp'.id = 1)
          /\ batchDepth' = 0 =>
               /\ pendingNotifications' = <<>>
               /\ \A s \in StoreIds : RunsOf(sched', s) = Queued(s)
     /\ DepthAccounted'

\* C15: batchAsync raises the depth once and lowers it exactly once, whether
\* the function's promise fulfils, rejects or the function throws, and the
\* queue is drained before the caller sees the outcome.  The property of a
\* step is C15_BatchAsync_Step; no step records C15 in broken.
C15_BatchAsync == "C15" \notin broken

\* fn has just thrown inside batchAsync: the depth is back at 0, the queued
\* flush of store 1 has run and the returned promise is rejected.
C15_Witness ==
  /\ lastOp.op = "batchAsyncThrow" /\ ret.thrown /\ batchDepth = 0
  /\ closedBatch # None /\ closedBatch[1].order = <<1>>
  /\ Len(DrainRuns(sched)) = 1 /\ listeners[1] # <<>> /\ ~NoCalls(trace)
  /\ state[1] # InitialState

(***************************************************************************)
(* C16.  If the function passed to batch throws, the depth is restored to  *)
(* its value before the call and the exception is rethrown; mutations      *)
(* accepted before the throw are kept and, if this was the outermost       *)
(* batch, their notification is delivered exactly once before the          *)
(* exception propagates.                                                   *)
(***************************************************************************)
\* C16 as claimed.
C16_Original ==
  [][lastOp'.op = "batchThrow" =>
       /\ ret'.thrown
       /\ batchDepth' = Top.base
       /\ SnapshotsKept
       /\ Top.base = 0 => \A s \in StoreIds : MutatedInBatch(s) => Delivered(s)]_vars

\* C16, amended: the depth falls by one, which is its value before the call
\* unless a batch started inside the function still waits for its promise;
\* the notification is delivered if the depth thereby returns to 0 and
\* stays queued otherwise.
C16_BatchThrow_Step ==
     lastOp'.op = "batchThrow" =>
       /\ ret'.thrown
       /\ batchDepth' = batchDepth - 1
       /\ batchDepth' = Top.base + Top.inner
       /\ SnapshotsKept
       /\ batchDepth' = 0 => \A s \in StoreIds : MutatedInBatch(s) => Delivered(s)
       /\ batchDepth' > 0 =>
            NoCalls(trace') /\ pendingNotifications' = pendingNotifications

\* C16: when the function passed to batch throws the depth falls by one, and
\* the queued notification is delivered if the depth thereby returns to 0 and
\* stays queued otherwise.  The property of a step is C16_BatchThrow_Step; no
\* step records C16 in broken.
C16_BatchThrow == "C16" \notin broken

\* The function of the outermost batch has just thrown after a mutation of
\* store 1: the listener was called once and the mutation is kept.
C16_Witness ==
  /\ lastOp.op = "batchThrow" /\ ret.thrown /\ batchDepth = 0 /\ tasks.frames = <<>>
  /\ closedBatch # None /\ closedBatch[1].prev[1] = Some(InitialState)
  /\ state[1] # InitialState /\ listeners[1] = <<1>>
  /\ Len(trace) = 1 /\ IsCall(trace[1], 1, 1)
  /\ trace[1].next = state[1] /\ trace[1].prev = InitialState

(***************************************************************************)
(* C17.  The depth and the queue are shared by all stores: while any batch *)
(* is open an accepted setState on any store (one the batch's function     *)
(* never touches, one called by other code while an async batch waits)     *)
(* calls no listener until the depth returns to 0.                         *)
(***************************************************************************)
C17_SharedDepth_Step ==
     /\ batchDepth' > 0 => NoCalls(trace') /\ DrainRuns(sched') = <<>>
     /\ (lastOp'.op = "setState" /\ batchDepth > 0) =>
          LET s == lastOp'.st
          IN /\ batchDepth' = batchDepth
             /\ (trace'[1].ev = "accept" /\ ~hasPendingNotification[s]) =>
                  /\ hasPendingNotification'[s]
                  /\ pendingNotifications' = Append(pendingNotifications, s)

\* C17: while any batch is open an accepted setState on any store calls no
\* listener until the depth returns to 0.  The property of a step is
\* C17_SharedDepth_Step; no step records C17 in broken.
C17_SharedDepth == "C17" \notin broken

\* While a batchAsync call waits for its promise and no batch function is
\* running, a mutation of store 2 has just been accepted: its listener was
\* not called and its flush is queued; store 1 was not touched.
C17_Witness ==
  /\ lastOp.op = "setState" /\ lastOp.st = 2
  /\ tasks.frames = <<>> /\ tasks.awaiting.batchAsync = 1 /\ batchDepth = 1
  /\ listeners[2] = <<1>> /\ Len(trace) = 1 /\ trace[1].ev = "accept"
  /\ pendingNotifications = <<2>> /\ muts[1] = {} /\ muts[2] = {"awaited"}

(***************************************************************************)
(* C18.  scheduleBatch(thunk) runs the thunk before returning if and only  *)
(* if the depth is 0; otherwise the thunk is not run during the call, and  *)
(* each scheduleBatch call made at depth > 0 results in exactly one later  *)
(* execution of its thunk, when the depth next returns to 0.               *)
(***************************************************************************)
C18_ScheduleBatch_Step ==
     /\ \A i \in 1..Len(sched') : sched'[i].ev = "schedule" =>
          IF sched'[i].depth = 0
          THEN /\ i < Len(sched')
               /\ sched'[i + 1].ev = "run" /\ sched'[i + 1].st = sched'[i].st
               /\ \E j \in (i + 2)..Len(sched') :
                    sched'[j].ev = "done" /\ sched'[j].st = sched'[i].st /\ sched'[j].lvl = sched'[i].lvl
          ELSE /\ \A j \in 1..Len(sched') : sched'[j].ev # "run"
               /\ pendingNotifications' = Append(pendingNotifications, sched'[i].st)
     /\ \A j \in 1..Len(sched') : sched'[j].ev = "run" =>
          \/ j > 1 /\ sched'[j - 1].ev = "schedule" /\ sched'[j - 1].depth = 0
                   /\ sched'[j - 1].st = sched'[j].st
          \/ ClosesDepth /\ sched'[j].lvl = 0 /\ Queued(sched'[j].st) > 0
     /\ ClosesDepth =>
          /\ \A s \in StoreIds : RunsOf(sched', s) = Queued(s)
          /\ pendingNotifications' = <<>>
     /\ (batchDepth > 0 /\ batchDepth' > 0 /\ \A i \in 1..Len(sched') : sched'[i].ev # "schedule") =>
          pendingNotifications' = pendingNotifications

C19_FifoDrain_Step ==
     /\ batchDepth' > 0 => pendingNotifications' = tasks'.order
     /\ ClosesDepth =>
          /\ [i \in 1..Len(DrainRuns(sched')) |-> DrainRuns(sched')[i].st] = tasks.order
          /\ \A i \in 1..Len(sched') : (sched'[i].ev = "run" /\ sched'[i].lvl = 0) =>
               \E j \in (i + 1)..Len(sched') :
                 /\ sched'[j].ev = "done" /\ sched'[j].lvl = 0 /\ sched'[j].st = sched'[i].st
                 /\ \A k \in (i + 1)..(j - 1) : sched'[k].lvl > 0
          /\ \A a, b \in 1..Len(tasks.order) : a < b =>
               \A i, j \in 1..Len(trace') :
                 (/\ trace'[i].ev = "call" /\ trace'[i].st = tasks.order[a]
                  /\ trace'[j].ev = "call" /\ trace'[j].st = tasks.order[b]) => i < j

\* C19: when the depth returns to 0 the queued thunks run in the order in
\* which they were queued, each finishing before the next starts.  The
\* property of a step is C19_FifoDrain_Step; no step records C19 in broken.
C19_FifoDrain == "C19" \notin broken

\* The depth has just returned to 0 after mutations of store 2 and then of
\* store 1: the listener of store 2 was called before the two of store 1.
C19_Witness ==
  /\ lastOp.op \in ClosingOps /\ batchDepth = 0
  /\ closedBatch # None /\ closedBatch[1].order = <<2, 1>>
  /\ Len(listeners[1]) = 2 /\ listeners[2] = <<1>>
  /\ Len(trace) >= 3 /\ IsCall(trace[1], 2, 1)
  /\ \E i, j \in 2..Len(trace) : i < j /\ IsCall(trace[i], 1, listeners[1][1])
                                      /\ IsCall(trace[j], 1, listeners[1][2])

(***************************************************************************)
(* One store with up to FlushListeners listeners of every kind, mutated    *)
(* inside and outside one level of batch.                                  *)
(***************************************************************************)
SubscribeMore(s, l) ==
  /\ Len(listeners[s]) < FlushListeners
  /\ Commit(SubscribeW(World, s, l), Op("subscribe", s, l))
  /\ UNCHANGED <<batchPrev, innerSeen>>

NextFlush ==
  \/ \E s \in StoreIds, u \in Updaters :
       stateVersion[s] < MaxVersion /\ SetState(s, u) /\ UNCHANGED <<muts, lru, subs, tasks, arg, form, lazy, kv, http, broken>>
  \/ \E s \in StoreIds, l \in ListenerIds : SubscribeMore(s, l) /\ UNCHANGED <<muts, lru, subs, tasks, arg, form, lazy, kv, http, broken>>
  \/ BatchEnter /\ UNCHANGED <<muts, lru, subs, tasks, arg, form, lazy, kv, http, broken>>
  \/ BatchExit /\ UNCHANGED <<muts, lru, subs, tasks, arg, form, lazy, kv, http, broken>>

SpecFlush == Init /\ [][NextFlush]_vars

(***************************************************************************)
(* One store whose callers pass every updater, the throwing one included,  *)
(* and call select with plain and throwing selectors; the equality         *)
(* function is the default one or one that throws.                         *)
(***************************************************************************)
CallUpdaters == Updaters \cup ThrowingUpdaters
CallSelectors == SelectorIds \cup ThrowingSelectors

SetStateCall(s, u) ==
  /\ stateVersion[s] < MaxVersion
  /\ SetState(s, u)
  /\ arg' = Some(u)
  /\ UNCHANGED <<muts, lru, subs, tasks, form, lazy, kv, http>>

NextCalls ==
  \/ \E s \in StoreIds, u \in CallUpdaters : SetStateCall(s, u) /\ UNCHANGED broken
  \/ \E s \in StoreIds, sel \in CallSelectors :
       Select(s, sel) /\ UNCHANGED <<muts, lru, subs, tasks, arg, form, lazy, kv, http, broken>>
  \/ \E s \in StoreIds : Subscribe(s, 1) /\ UNCHANGED <<muts, lru, subs, tasks, arg, form, lazy, kv, http, broken>>
  \/ BatchEnter /\ UNCHANGED <<muts, lru, subs, tasks, arg, form, lazy, kv, http, broken>>
  \/ BatchExit /\ UNCHANGED <<muts, lru, subs, tasks, arg, form, lazy, kv, http, broken>>

InitCalls ==
  /\ InitCore({1})
  /\ equalityFn \in [{1} -> {"shallow"} \cup ThrowingEqKinds]
  /\ arg = None
  /\ form = createFormControl(0, <<>>, "blur")
  /\ http = createHttpClient(0)

SpecCalls == InitCalls /\ [][NextCalls]_vars

(***************************************************************************)
(* One store and two functions of other callers of scheduleBatch, one of   *)
(* which throws, around batch and batchAsync calls.                        *)
(***************************************************************************)
\* scheduleBatch(fn) is called by code other than a store.
ScheduleExternal(t) ==
  /\ Commit(scheduleBatch(World, t, 0), Op("scheduleBatch", 0, t))
  /\ UNCHANGED <<batchPrev, innerSeen, muts, lru, subs, tasks, arg, form, lazy, kv, http>>

NextDrain ==
  \/ \E s \in StoreIds, u \in AsyncUpdaters : MutateInTask(s, u) /\ UNCHANGED broken
  \/ \E s \in StoreIds : Subscribe(s, 1) /\ UNCHANGED <<muts, lru, subs, tasks, arg, form, lazy, kv, http, broken>>
  \/ \E t \in ExternalThunks : ScheduleExternal(t) /\ UNCHANGED broken
  \/ BatchCall /\ UNCHANGED broken
  \/ BatchReturns /\ UNCHANGED broken
  \/ BatchThrows /\ UNCHANGED broken
  \/ BatchReturnsPromise /\ UNCHANGED broken
  \/ \E rejected \in BOOLEAN : PromiseSettles(rejected) /\ UNCHANGED broken
  \/ BatchAsyncCall /\ UNCHANGED broken
  \/ BatchAsyncThrows /\ UNCHANGED broken
  \/ BatchAsyncAwaits /\ UNCHANGED broken
  \/ \E rejected \in BOOLEAN : BatchAsyncResumes(rejected) /\ UNCHANGED broken

SpecDrain == Init /\ [][NextDrain]_vars

(***************************************************************************)
(* One store under batch and batchAsync calls that all end: every function *)
(* handed to batch or batchAsync returns or throws, whatever its nesting,  *)
(* and the host settles every promise once the call stack is empty.        *)
(***************************************************************************)
NextLive ==
  \/ \E s \in StoreIds, u \in AsyncUpdaters : MutateInTask(s, u) /\ UNCHANGED broken
  \/ \E s \in StoreIds : Subscribe(s, 1) /\ UNCHANGED <<muts, lru, subs, tasks, arg, form, lazy, kv, http, broken>>
  \/ \E s \in StoreIds : Destroy(s) /\ UNCHANGED <<muts, lru, subs, tasks, arg, form, lazy, kv, http, broken>>
  \/ BatchCall /\ UNCHANGED broken
  \/ BatchReturns /\ UNCHANGED broken
  \/ BatchThrows /\ UNCHANGED broken
  \/ BatchReturnsPromise /\ UNCHANGED broken
  \/ \E rejected \in BOOLEAN : PromiseSettles(rejected) /\ UNCHANGED broken
  \/ BatchAsyncCall /\ UNCHANGED broken
  \/ BatchAsyncThrows /\ UNCHANGED broken
  \/ BatchAsyncAwaits /\ UNCHANGED broken
  \/ \E rejected \in BOOLEAN : BatchAsyncResumes(rejected) /\ UNCHANGED broken

\* The function running at nesting n ends.
FnEnds(n) ==
  /\ Len(tasks.frames) = n
  /\ BatchReturns \/ BatchThrows \/ BatchReturnsPromise \/ BatchAsyncThrows \/ BatchAsyncAwaits

SpecLive ==
  /\ Init /\ [][NextLive]_vars
  /\ \A n \in 1..MaxDepth : SF_vars(FnEnds(n) /\ UNCHANGED broken)
  /\ SF_vars(\E rejected \in BOOLEAN : PromiseSettles(rejected) /\ UNCHANGED broken)
  /\ SF_vars(\E rejected \in BOOLEAN : BatchAsyncResumes(rejected) /\ UNCHANGED broken)

(***************************************************************************)
(* One form control, in mode 'change' or 'blur', with one or two           *)
(* validators.  The host fires an armed timer and resumes a suspended      *)
(* validation at any time between the caller's operations.                 *)
(***************************************************************************)
MaxValidationId == 3
MaxTimers == 2

storeVars == <<state, isDestroyed, listeners, cache, stateVersion, hasPendingNotification,
               notificationPrevState, equalityFn, batchDepth, pendingNotifications,
               lastOp, ret, trace, batchPrev, innerSeen, muts, closedBatch, selected, lru,
               sched, subs, tasks, arg, lazy, kv, http>>

\* The control as an operation finds it, and the step that leaves it as f.
Entered == [form EXCEPT !.notified = 0, !.last = NoRun, !.fired = 0, !.given = None]
Done(f, op) == form' = [f EXCEPT !.op = op] /\ UNCHANGED storeVars
\* The validations that were suspended before the step, marked.
Superseded(f) ==
  [f EXCEPT !.runs = [i \in 1..Len(@) |->
                        IF i <= Len(form.runs) /\ Len(@) > Len(form.runs)
                        THEN [@[i] EXCEPT !.superseded = TRUE] ELSE @[i]]]
Cancelled(f) ==
  [f EXCEPT !.runs = [i \in 1..Len(@) |-> [@[i] EXCEPT !.cancelled = TRUE]],
            !.dead = @ \cup form.timers]
Sequel(runs, i) == [j \in 1..(Len(runs) - 1) |-> IF j < i THEN runs[j] ELSE runs[j + 1]]

SetValue(val) ==
  /\ form.timerSeq < MaxTimers
  /\ Done(setValue(Entered, val), "setValue")
SetError(err) == Done(setError(Entered, err), "setError")
MarkTouched ==
  /\ form.currentValidationId < MaxValidationId
  /\ Done(Superseded(markTouched(Entered)), "markTouched")
MarkDirty == Done(markDirty(Entered), "markDirty")
Validate ==
  /\ form.currentValidationId < MaxValidationId
  /\ Done(Superseded(validate(Entered)), "validate")
Reset(newValue) ==
  /\ form.currentValidationId < MaxValidationId
  /\ Done(IF form.isDestroyed THEN Entered
          ELSE [Cancelled(reset(Entered, newValue)) EXCEPT !.given = newValue], "reset")
FormSubscribe == Done(formSubscribe(Entered), "subscribe")
FormDestroy ==
  Done(IF form.isDestroyed THEN Entered ELSE Cancelled(formDestroy(Entered)), "destroy")

\* The host runs the callback of an armed timer.
TimerFires(id) ==
  /\ id \in form.timers
  /\ form.currentValidationId < MaxValidationId
  /\ Done(Superseded(validateTimeoutFires([Entered EXCEPT !.timers = @ \ {id}, !.fired = id])),
          "timer")

\* The promise of a validator settles: runValidation resumes.
ValidatorSettles(i) ==
  /\ i \in 1..Len(form.runs) /\ form.runs[i].at = "validator"
  /\ Done([Entered EXCEPT !.runs[i] = runValidationResume(Entered, form.runs[i]),
                          !.last = form.runs[i]], "resume")

\* runValidation has returned: validateImmediate resumes and ends.
ValidationResumes(i) ==
  /\ i \in 1..Len(form.runs) /\ form.runs[i].at = "returned"
  /\ Done([validateImmediateResume(Entered, form.runs[i]) EXCEPT
             !.runs = Sequel(@, i), !.last = form.runs[i]], "finish")


InitForm ==
  /\ InitCore({1}) /\ equalityFn = [s \in {1} |-> "shallow"] /\ arg = None
  /\ http = createHttpClient(0)
  /\ \E mode \in {"change", "blur"},
        validators \in {<<"required">>, <<"required", "throwing">>} :
       form = createFormControl(0, validators, mode)


(***************************************************************************)
(* C21.  If a listener throws during a flush, the exception does not reach *)
(* the caller of setState or batch, and every other listener registered    *)
(* for that flush is still called exactly once with the same pair.         *)
(***************************************************************************)
\* A listener of store s threw in the flush of nesting lvl.
ThrewIn(tr, s, lvl) == \E i \in 1..Len(tr) : tr[i].ev = "error" /\ tr[i].st = s /\ tr[i].lvl = lvl
CallsIn(tr, s, l, lvl) == {i \in 1..Len(tr) : IsCall(tr[i], s, l) /\ tr[i].lvl = lvl}
\* Every listener of ls was called once in the flush of nesting lvl, all with one pair.
FlushComplete(tr, s, ls, lvl) ==
  /\ \A k \in 1..Len(ls) : Cardinality(CallsIn(tr, s, ls[k], lvl)) = 1
  /\ \A i, j \in 1..Len(tr) :
       (/\ tr[i].ev = "call" /\ tr[j].ev = "call" /\ tr[i].st = s /\ tr[j].st = s
        /\ tr[i].lvl = lvl /\ tr[j].lvl = lvl) =>
         tr[i].next = tr[j].next /\ tr[i].prev = tr[j].prev

C22_DrainSurvives ==
  [][ClosesDepth =>
       /\ lastOp'.op \in ClosingOps
       /\ [i \in 1..Len(DrainRuns(sched')) |-> DrainRuns(sched')[i].st] = pendingNotifications
       /\ pendingNotifications' = <<>>
       /\ ret'.thrown = (lastOp'.op \in {"batchThrow", "batchAsyncThrow"} \/ lastOp'.id = 1)
       /\ \A i \in 1..Len(sched') : sched'[i].ev = "caught" => sched'[i].st = -1
       /\ \A s \in StoreIds : (Queued(s) = 1 /\ ~isDestroyed[s]) =>
            AllDeliveredOnce(trace', s, listeners[s], state[s], batchPrev[s][1])]_vars

\* batchAsync has just resumed and drained a queue whose first thunk threw:
\* the store's closure queued behind it ran and called the listener, the
\* third thunk ran after it, and batchAsync did not throw.
C22_Witness ==
  /\ lastOp.op = "batchAsyncSettle" /\ lastOp.id = 0 /\ ~ret.thrown /\ batchDepth = 0
  /\ pendingNotifications = <<>> /\ Len(sched) = 6
  /\ sched[1].ev = "run" /\ sched[1].st = -1 /\ sched[2].ev = "caught"
  /\ sched[3].ev = "run" /\ sched[3].st = 1 /\ sched[4].ev = "done"
  /\ sched[5].ev = "run" /\ sched[5].st = -2 /\ sched[6].ev = "done"
  /\ CountCalls(trace, 1, 1) = 1

(***************************************************************************)
(* C23.  Once destroy() has returned no listener of the store is called    *)
(* again: a flush pending in an open batch delivers nothing when the batch *)
(* closes, and when a listener calls destroy() during a flush the          *)
(* listeners not yet called in that flush are skipped.                     *)
(***************************************************************************)
C23_SilentAfterDestroy_Step ==
     \A i \in 1..Len(trace') : trace'[i].ev = "call" =>
       /\ ~isDestroyed[trace'[i].st]
       /\ \A j \in 1..(i - 1) :
            ~(trace'[j].ev = "destroyed" /\ trace'[j].st = trace'[i].st)

\* C23: no listener of a store is called once destroy has returned, neither
\* by a flush that was pending nor by the rest of a flush in which a listener
\* called destroy.  The property of a step is C23_SilentAfterDestroy_Step; no
\* step records C23 in broken.
C23_SilentAfterDestroy == "C23" \notin broken

\* The batch has just closed over a store that was mutated and given a
\* listener in the batch and then destroyed: its thunk ran and called nobody.
C23_Witness ==
  /\ lastOp.op = "batchExit" /\ batchDepth = 0 /\ isDestroyed[1]
  /\ closedBatch # None /\ closedBatch[1].prev[1] # None
  /\ Len(sched) = 2 /\ sched[1].ev = "run" /\ sched[1].st = 1
  /\ NoCalls(trace) /\ state[1] # InitialState

(***************************************************************************)
(* C24.  If every opened batch eventually closes, every accepted setState  *)
(* on a store that is not destroyed is eventually followed by a flush of   *)
(* that store that delivers the snapshot current at flush time.            *)
(***************************************************************************)
\* setState has just accepted a mutation of store s.
JustAccepted(s) ==
  /\ lastOp.op = "setState" /\ lastOp.st = s /\ ~isDestroyed[s]
  /\ \E i \in 1..Len(trace) : trace[i].ev = "accept" /\ trace[i].st = s
\* The closure of store s has just run and handed every listener the live snapshot.
Flushed(s) ==
  /\ \E i \in 1..Len(sched) : sched[i].ev = "run" /\ sched[i].st = s
  /\ \A k \in 1..Len(listeners[s]) :
       \E i \in 1..Len(trace) : IsCall(trace[i], s, listeners[s][k]) /\ trace[i].next = state[s]
  /\ ~hasPendingNotification[s]

\* C24 as claimed: the batches all close, but may overlap for ever.
C24_Original == JustAccepted(1) ~> (Flushed(1) \/ isDestroyed[1])

\* C24, amended: provided the batch depth returns to 0 again and again.
C24_EventualFlush ==
  ([]<>(batchDepth = 0)) => (JustAccepted(1) ~> (Flushed(1) \/ isDestroyed[1]))

\* A promise batch has just settled and flushed a mutation accepted in it.
C24_Witness ==
  /\ lastOp.op = "settle" /\ batchDepth = 0 /\ closedBatch # None
  /\ closedBatch[1].prev[1] # None /\ Flushed(1) /\ Len(listeners[1]) = 1
  /\ state[1] # closedBatch[1].prev[1][1]

(***************************************************************************)
(* C25.  getState() on a live store returns the snapshot produced by the   *)
(* most recent accepted setState, or the initial snapshot; a setState      *)
(* accepted inside an open batch is visible at once, before the flush; a   *)
(* rejected setState leaves what getState() returns as it was.             *)
(***************************************************************************)
\* The candidate of the last setState accepted for s in the step, if any.
LastAccepted(tr, s) ==
  LET I == {i \in 1..Len(tr) : tr[i].ev = "accept" /\ tr[i].st = s}
  IN IF I = {} THEN None ELSE Some(tr[CHOOSE i \in I : \A j \in I : j <= i].next)

C25_CurrentSnapshot_Step ==
     \A s \in StoreIds :
       /\ state'[s] = IF LastAccepted(trace', s) = None THEN state[s]
                      ELSE LastAccepted(trace', s)[1]
       /\ (lastOp'.op = "getState" /\ lastOp'.st = s /\ ~isDestroyed[s]) =>
            ret' = [thrown |-> FALSE, val |-> Some(state[s])]
       /\ (lastOp'.op = "setState" /\ lastOp'.st = s /\ trace'[1].ev = "reject"
             /\ ~Has(trace', "accept", s)) => state'[s] = state[s]

\* C25: after a step the snapshot of a live store is the candidate of the
\* last setState accepted for it, and getState returns the current snapshot.
\* The property of a step is C25_CurrentSnapshot_Step; no step records C25 in
\* broken.
C25_CurrentSnapshot == "C25" \notin broken

\* getState() has just returned, inside an open batch whose flush is
\* pending, the snapshot of the second mutation accepted in the batch.
C25_Witness ==
  /\ lastOp.op = "getState" /\ ~ret.thrown /\ ret.val = Some(state[1])
  /\ batchDepth > 0 /\ hasPendingNotification[1] /\ stateVersion[1] = 2
  /\ batchPrev[1] = Some(InitialState) /\ state[1] # InitialState
  /\ notificationPrevState[1] = Some(InitialState)

(***************************************************************************)
(* C26.  At most one flush thunk per store is queued: the first accepted   *)
(* setState of a window queues it and captures the previous snapshot,      *)
(* later accepted calls of the window queue nothing and keep the captured  *)
(* snapshot; the pending flag is true exactly while the thunk is queued    *)
(* and has not started.                                                    *)
(***************************************************************************)
C26_OneThunk_Step ==
     \A s \in StoreIds :
       /\ Queued(s) <= 1 /\ hasPendingNotification[s] = (Queued(s) = 1)
       /\ hasPendingNotification'[s] = (Cardinality({i \in 1..Len(pendingNotifications') :
                                                       pendingNotifications'[i] = s}) = 1)
       /\ (lastOp'.op = "setState" /\ lastOp'.st = s /\ batchDepth > 0 /\ trace'[1].ev = "accept") =>
            IF hasPendingNotification[s]
            THEN /\ pendingNotifications' = pendingNotifications
                 /\ notificationPrevState'[s] = notificationPrevState[s]
                 /\ sched' = <<>>
            ELSE /\ pendingNotifications' = Append(pendingNotifications, s)
                 /\ notificationPrevState'[s] = Some(state[s])
       /\ \A i \in 1..Len(trace') : (trace'[i].ev = "call" /\ trace'[i].st = s) =>
            \E j \in 1..Len(sched') : sched'[j].ev = "run" /\ sched'[j].st = s

\* C26: at most one flush thunk per store is queued, only the first accepted
\* setState of a window queues it and captures the previous snapshot, and the
\* pending flag is true exactly while the thunk is queued and has not
\* started.  The property of a step is C26_OneThunk_Step; no step records C26
\* in broken.
C26_OneThunk == "C26" \notin broken

\* A second mutation has just been accepted in the window: one thunk is
\* queued and the captured snapshot is the one before the first mutation.
C26_Witness ==
  /\ lastOp.op = "setState" /\ batchDepth > 0 /\ trace[1].ev = "accept"
  /\ stateVersion[1] = 2 /\ pendingNotifications = <<1>> /\ hasPendingNotification[1]
  /\ notificationPrevState[1] = Some(InitialState) /\ trace[1].prev # InitialState

(***************************************************************************)
(* C27.  For a patch p, or a function updater whose result is an object p, *)
(* the candidate is the current snapshot with p's keys overriding it: the  *)
(* keys absent from p keep their values.  A function updater receives the  *)
(* live snapshot: in a batch, the one left by the batch's earlier calls.   *)
(***************************************************************************)
\* What the caller's updater yields for the snapshot it is given.
PatchOf(u, snap) ==
  IF u.kind = "patch" THEN u.p ELSE [k \in {"a"} |-> IF snap["a"] = MaxVal THEN 0 ELSE snap["a"] + 1]

C27_Candidate ==
  [][\A s \in StoreIds :
       (/\ lastOp'.op = "setState" /\ lastOp'.st = s /\ ~isDestroyed[s] /\ ~ret'.thrown) =>
         /\ Len(trace') > 0 /\ trace'[1].ev \in {"accept", "reject"}
         /\ trace'[1].prev = state[s]
         /\ \A k \in Keys :
              trace'[1].next[k] = IF k \in DOMAIN PatchOf(arg'[1], state[s])
                                  THEN PatchOf(arg'[1], state[s])[k] ELSE state[s][k]
         /\ trace'[1].ev = "accept" => state'[s] = trace'[1].next]_vars

\* The function updater has just been applied a second time in the batch:
\* it was given the snapshot its first application left, and key "b" kept
\* the value an earlier patch gave it.
C27_Witness ==
  /\ lastOp.op = "setState" /\ arg # None /\ arg[1].kind = "fn" /\ batchDepth > 0
  /\ Len(trace) > 0 /\ trace[1].ev = "accept" /\ trace[1].prev["a"] = MaxVal /\ trace[1].prev["b"] = 1
  /\ state[1]["a"] = 0 /\ state[1]["b"] = 1 /\ batchPrev[1] # None /\ batchPrev[1][1]["a"] # MaxVal

(***************************************************************************)
(* C28.  An exception thrown by the equality function or by a function     *)
(* updater during setState reaches the caller and leaves the snapshot, the *)
(* version, the pending flag and the queue unchanged; an exception thrown  *)
(* by a selector during select reaches the caller and leaves nothing       *)
(* cached for that selector.                                               *)
(***************************************************************************)
\* The call of the step makes the caller's updater or equality function throw.
WillThrow(s) ==
  /\ lastOp'.op = "setState" /\ lastOp'.st = s /\ ~isDestroyed[s]
  /\ \/ arg'[1].f = "boom"
     \/ /\ equalityFn[s] = "throwB" /\ arg'[1].kind = "patch" /\ "b" \in DOMAIN arg'[1].p
        /\ arg'[1].p["b"] # state[s]["b"]

C28_Propagates ==
  [][\A s \in StoreIds :
       /\ WillThrow(s) =>
            /\ ret'.thrown /\ state' = state /\ stateVersion' = stateVersion /\ cache' = cache
            /\ hasPendingNotification' = hasPendingNotification
            /\ notificationPrevState' = notificationPrevState
            /\ pendingNotifications' = pendingNotifications /\ sched' = <<>> /\ trace' = <<>>
       /\ (lastOp'.op = "setState" /\ lastOp'.st = s /\ ret'.thrown) => WillThrow(s)
       /\ (lastOp'.op = "select" /\ lastOp'.st = s /\ lastOp'.id \in ThrowingSelectors) =>
            /\ ret'.thrown /\ ret'.val = None
            /\ CacheIndex(cache'[s], lastOp'.id) = 0 /\ cache'[s] = cache[s]
            /\ state' = state /\ stateVersion' = stateVersion]_vars

\* The equality function has just thrown in a batch in which a mutation was
\* accepted before: the flush is still pending with the snapshot it captured.
C28_Witness ==
  /\ lastOp.op = "setState" /\ ret.thrown /\ arg[1].kind = "patch" /\ equalityFn[1] = "throwB"
  /\ batchDepth > 0 /\ hasPendingNotification[1] /\ pendingNotifications = <<1>>
  /\ stateVersion[1] = 1 /\ state[1] # InitialState /\ trace = <<>>
  /\ notificationPrevState[1] = Some(InitialState) /\ Len(cache[1]) > 0

(***************************************************************************)
(* C29.  When validate() calls on a form control overlap, only the most    *)
(* recently started validation writes its result: a validation superseded  *)
(* by a later one never writes error or validating when it finishes,       *)
(* whatever order the validations complete in.                             *)
(***************************************************************************)
\* What the validators of the control report for a value.
ExpectedError(val) ==
  IF val = 0 THEN "required" ELSE IF Len(form.validators) > 1 THEN "Validation error" ELSE "null"

C29_LatestWins_Step ==
     /\ form'.op = "resume" => form'.error = form.error /\ form'.validating = form.validating
     /\ form'.op = "finish" =>
          IF form'.last.superseded
          THEN /\ form'.error = form.error /\ form'.validating = form.validating
               /\ form'.notified = 0
          ELSE (~form'.last.cancelled /\ ~form.isDestroyed) =>
                 form'.error = ExpectedError(form'.last.val) /\ ~form'.validating

\* C29: only the validation started last writes error and validating,
\* whatever order the validations complete in.  The property of a step is
\* C29_LatestWins_Step; no step records C29 in broken.
C29_LatestWins == "C29" \notin broken

\* A validation that had found an error was superseded before it resumed
\* and has just finished: no error is shown and the later validation is
\* still in flight.
C29_Witness ==
  /\ form.op = "finish" /\ form.last.superseded /\ ~form.last.cancelled
  /\ form.last.err = "required" /\ form.error = "null" /\ form.validating
  /\ Len(form.runs) = 1 /\ form.runs[1].id = form.currentValidationId /\ ~form.isDestroyed

(***************************************************************************)
(* C30.  reset() and destroy() on a form control cancel pending work: a    *)
(* debounced validation scheduled before the call never starts, and a      *)
(* validation in flight at the call never writes error or validating       *)
(* afterwards; right after reset the control has error null, touched       *)
(* false, dirty false, validating false and the given or initial value.    *)
(***************************************************************************)
C30_Cancels_Step ==
     /\ (form'.op \in {"reset", "destroy"} /\ ~form.isDestroyed) =>
          form'.timers = {} /\ form'.validateTimeout = 0
     /\ form'.op = "timer" => form'.fired \notin form.dead
     /\ (form'.op \in {"resume", "finish"} /\ form'.last.cancelled) =>
          /\ form'.error = form.error /\ form'.validating = form.validating
          /\ form'.notified = 0
     /\ (form'.op = "reset" /\ ~form.isDestroyed) =>
          /\ form'.error = "null" /\ ~form'.touched /\ ~form'.dirty /\ ~form'.validating
          /\ form'.value = IF form'.given = None THEN form.initialValue ELSE form'.given[1]

\* C30: reset and destroy cancel the debounce timer and every validation in
\* flight, and right after reset the control has error null, touched, dirty
\* and validating false and the given or initial value.  The property of a
\* step is C30_Cancels_Step; no step records C30 in broken.
C30_Cancels == "C30" \notin broken

\* reset was called with a validation in flight that had found an error and
\* with the debounce timer armed; the validation has just finished and the
\* control is as reset left it.
C30_Witness ==
  /\ form.op = "finish" /\ form.last.cancelled /\ form.last.err = "required"
  /\ form.error = "null" /\ ~form.validating /\ ~form.touched /\ ~form.dirty
  /\ form.dead # {} /\ form.timers = {} /\ ~form.isDestroyed /\ form.value = 1

(***************************************************************************)
(* C34.  When a listener calls setState on its own store during a flush,   *)
(* every listener still receives its notifications in state-history order: *)
(* the pairs a listener is handed are chained (the second argument of each *)
(* is the first argument of the one before) and the last pair carries the  *)
(* store's final snapshot.                                                 *)
(***************************************************************************)
CallsOf(tr, s, l) == SelectSeq(tr, LAMBDA e : IsCall(e, s, l))

\* C34 as claimed; the code hands a listener registered behind the calling
\* one the pair of the nested flush first and the older pair after it.
C34_HistoryOrder ==
  [][\A s \in StoreIds, l \in ListenerIds :
       LET cs == CallsOf(trace', s, l)
       IN (Len(cs) > 0 /\ ~Has(trace', "destroyed", s)) =>
            /\ \A i \in 1..(Len(cs) - 1) : cs[i + 1].prev = cs[i].next
            /\ cs[Len(cs)].next = state'[s]]_vars

(***************************************************************************)
(* C36.  Whenever the depth is 0 and no flush, listener or batch function  *)
(* is executing, the scheduler's queue is empty and no store has its       *)
(* pending flag set.                                                       *)
(***************************************************************************)
C36_IdleClean ==
  batchDepth = 0 =>
    /\ pendingNotifications = <<>>
    /\ \A s \in StoreIds : ~hasPendingNotification[s] /\ notificationPrevState[s] = None

\* The batch has just closed over a store mutated twice in it, with a
\* throwing listener and a listener that calls setState: nothing is left.
C36_Witness ==
  /\ lastOp.op = "batchExit" /\ batchDepth = 0 /\ pendingNotifications = <<>>
  /\ ~hasPendingNotification[1] /\ stateVersion[1] >= 2 /\ ~isDestroyed[1]
  /\ closedBatch # None /\ closedBatch[1].prev[1] # None
  /\ listeners[1] = <<2, 3>> /\ Has(trace, "error", 1) /\ Has(trace, "reenter", 1)

(***************************************************************************)
(* C37.  Every notification delivered to a listener carries a pair         *)
(* (next, prev) that differs under the store's equality function, also     *)
(* when the mutations of one window change the state and change it back.   *)
(***************************************************************************)
\* C37 as claimed; the code compares each candidate with the live snapshot
\* only, so the window's pair may be equal.
C37_PairDiffers ==
  [][\A i \in 1..Len(trace') :
       trace'[i].ev = "call" =>
         ~ApplyEquality(equalityFn[trace'[i].st], trace'[i].prev, trace'[i].next)]_vars

(***************************************************************************)
(* C39.  On a form control that is not destroyed, validating is true       *)
(* exactly while the most recently started validation is in flight: it     *)
(* becomes true when a validation starts, a superseded validation          *)
(* finishing does not clear it, it becomes false when the latest           *)
(* validation finishes or reset() is called, and it is false once every    *)
(* validation has settled.                                                 *)
(***************************************************************************)
\* A validation that no later validation, reset or destroy has overtaken.
LatestInFlight(f) ==
  \E i \in 1..Len(f.runs) : ~f.runs[i].superseded /\ ~f.runs[i].cancelled

C39_ValidatingFlag_Step ==
     /\ ~form.isDestroyed => (form.validating <=> LatestInFlight(form))
     /\ ~form'.isDestroyed =>
          /\ form'.validating <=> LatestInFlight(form')
          /\ Len(form'.runs) > Len(form.runs) => form'.validating
          /\ (form'.op = "finish" /\ form'.last.superseded) =>
               form'.validating = form.validating
          /\ (form'.op = "finish" /\ ~form'.last.superseded /\ ~form'.last.cancelled) =>
               ~form'.validating
          /\ form'.op = "reset" => ~form'.validating
          /\ form'.runs = <<>> => ~form'.validating

\* C39: validating is true exactly while a validation that nothing has
\* overtaken is in flight.  The property of a step is
\* C39_ValidatingFlag_Step; no step records C39 in broken.
C39_ValidatingFlag == "C39" \notin broken

\* Two validations overlapped; the first has just finished and validating
\* is still set for the second, which waits for its second validator.
C39_Witness ==
  /\ form.op = "finish" /\ form.last.superseded /\ form.last.id = 1 /\ form.validating
  /\ Len(form.runs) = 1 /\ form.runs[1].id = 2 /\ form.runs[1].k = 2
  /\ form.currentValidationId = 2 /\ ~form.isDestroyed

(***************************************************************************)
(* C40.  Whenever a validation of a form control finishes and writes       *)
(* error, the written error is the validators' verdict on the control's    *)
(* value at that moment: a setValue made while the validation is in flight *)
(* does not leave the control with an error computed from the old value.   *)
(***************************************************************************)
\* C40 as claimed; the code validates the value the validation was started
\* with and setValue does not supersede a validation in flight.
C40_VerdictOnCurrentValue ==
  [][(/\ form'.op = "finish" /\ ~form.isDestroyed
      /\ ~form'.last.superseded /\ ~form'.last.cancelled) =>
       form'.error = ExpectedError(form.value)]_vars

(***************************************************************************)
(* C35.  The transaction depth is never negative and always equals the     *)
(* number of batch and batchAsync calls that have started and not ended;   *)
(* it returns to 0 exactly when all of them have ended, also when          *)
(* overlapping async batches end in an order other than the one they       *)
(* started in.                                                             *)
(***************************************************************************)
\* The calls that have started and not ended: those whose function is
\* running and those whose promise has not settled.
OpenCalls(t) == Len(t.frames) + t.awaiting.batch + t.awaiting.batchAsync
CallStarts == lastOp'.op \in {"batchEnter", "batchAsyncEnter"}
CallEnds ==
  lastOp'.op \in {"batchExit", "batchThrow", "settle", "batchAsyncThrow", "batchAsyncSettle"}

C35_DepthCountsOpenCalls_Step ==
     /\ batchDepth' >= 0
     /\ batchDepth' = OpenCalls(tasks')
     /\ (batchDepth' = 0) <=> (OpenCalls(tasks') = 0)
     /\ CallStarts => (OpenCalls(tasks') = OpenCalls(tasks) + 1 /\ batchDepth' = batchDepth + 1)
     /\ CallEnds => (OpenCalls(tasks') = OpenCalls(tasks) - 1 /\ batchDepth' = batchDepth - 1)
     /\ ~(CallStarts \/ CallEnds) => batchDepth' = batchDepth

\* C35: the depth is the number of open batch and batchAsync calls: it rises
\* by one when a call starts and falls by one when a call ends or its promise
\* settles.  The property of a step is C35_DepthCountsOpenCalls_Step; no step
\* records C35 in broken.
C35_DepthCountsOpenCalls == "C35" \notin broken

\* A batch whose function returned a promise and a batchAsync overlapped;
\* the batchAsync has resumed and ended while the batch's promise is still
\* pending: one call is open and the depth is 1.
C35_Witness ==
  /\ lastOp.op = "batchAsyncSettle" /\ batchDepth = 1
  /\ tasks.frames = <<>> /\ tasks.awaiting.batch = 1 /\ tasks.awaiting.batchAsync = 0

(***************************************************************************)
(* The code's selector cache and the specified one side by side: one       *)
(* store, LazySelectors selectors.  Every select and setState is applied   *)
(* to both.  select is called with the lowest-numbered selector the        *)
(* specified cache holds no entry for, or with one of the first            *)
(* HotSelectors it holds an entry for, fresh or stale.                     *)
(***************************************************************************)
LazySelectors == 51
LazyMaxCalls == 54
LazyMaxKnown == 1
LazyMaxVersion == 1

LazyKeys(c) == {c[i].sel : i \in 1..Len(c)}
Unknown == (1..LazySelectors) \ LazyKeys(lazy.c)

SelectBoth(s, sel, known) ==
  /\ lazy.calls < LazyMaxCalls
  /\ Select(s, sel)
  /\ lazy' = [LazySelect(lazy, sel, state[s], stateVersion[s])
                EXCEPT !.calls = @ + 1, !.known = @ + known]
  /\ UNCHANGED <<muts, lru, subs, tasks, arg, form, kv, http>>

SelectUnknown(s) ==
  /\ Unknown # {}
  /\ SelectBoth(s, CHOOSE k \in Unknown : \A j \in Unknown : k <= j, 0)

SelectKnown(s, sel) ==
  /\ lazy.known < LazyMaxKnown
  /\ sel \in LazyKeys(lazy.c)
  /\ SelectBoth(s, sel, 1)

\* setState leaves the specified cache alone: its entries go stale.
MutateBoth(s, u) ==
  /\ stateVersion[s] < LazyMaxVersion
  /\ SetState(s, u)
  /\ lazy' = [lazy EXCEPT !.invoked = FALSE, !.value = None]
  /\ UNCHANGED <<muts, lru, subs, tasks, arg, form, kv, http>>

NextLazy ==
  \/ \E s \in StoreIds : SelectUnknown(s) /\ UNCHANGED broken
  \/ \E s \in StoreIds, sel \in 1..HotSelectors : SelectKnown(s, sel) /\ UNCHANGED broken
  \/ \E s \in StoreIds, u \in {[kind |-> "fn", p |-> <<>>, f |-> "incA"],
                               [kind |-> "patch", p |-> [k \in {"a"} |-> 0], f |-> "-"]} :
       MutateBoth(s, u) /\ UNCHANGED broken

SpecLazy == Init /\ [][NextLazy]_vars

(***************************************************************************)
(* C38.  The code's selector cache, which empties itself on every accepted *)
(* mutation and never compares stamps on lookup, is observationally        *)
(* equivalent to the specified cache, which keeps its entries and          *)
(* invalidates them lazily by stamp under the same bound of 50: over every *)
(* sequence of setState and select calls the two invoke the selector on    *)
(* the same select calls and return the same values, and every entry the   *)
(* code's cache holds carries the current version.                         *)
(***************************************************************************)
\* The entries of the specified cache whose stamp is the version, as the
\* code's cache would hold them.
FreshEntries(c, version) ==
  LET fresh == SelectSeq(c, LAMBDA e : e.stamp = version)
  IN [i \in 1..Len(fresh) |->
        [sel |-> fresh[i].sel, value |-> fresh[i].value, stateVersion |-> fresh[i].stamp]]

C38_LazyEquivalent ==
  [][\A s \in StoreIds :
       /\ lastOp'.op = "select" =>
            /\ Has(trace', "selector", s) <=> lazy'.invoked
            /\ ~ret'.thrown /\ ret'.val = lazy'.value
       /\ \A i \in 1..Len(cache'[s]) : cache'[s][i].stateVersion = stateVersion'[s]
       /\ cache'[s] = FreshEntries(lazy'.c, stateVersion'[s])]_vars

\* The specified cache was full of stale entries when a selector it did not
\* hold was selected: it evicted its oldest entry, the code's cache evicted
\* nothing, and both invoked the selector.
C38_Witness ==
  /\ lastOp.op = "select" /\ lazy.invoked /\ stateVersion[1] = 1
  /\ Len(lazy.c) = maxSize /\ Len(cache[1]) = 1 /\ 1 \notin LazyKeys(lazy.c)
  /\ lazy.c[maxSize].sel = 51 /\ cache[1][1].sel = 51
  /\ lazy.c[1].sel = 2 /\ lazy.c[1].stamp = 0

(***************************************************************************)
(* One key-value cache with room for KvMaxEntries entries, its operations  *)
(* called in any order with any key, the clock advancing and the cleanup   *)
(* timer firing in between.                                                *)
(***************************************************************************)
KvHeld(c) == {c[i].key : i \in 1..Len(c)}
\* The cache as an operation finds it, and the step that leaves it as k;
\* touched says whether the operation was a set or a successful get of key.
KvEntered == [kv EXCEPT !.evicted = <<>>, !.ret = None]
KvDone(k, op, key, touched) ==
  /\ kv' = [k EXCEPT !.op = op, !.key = key,
                     !.recent = SelectSeq(IF touched
                                          THEN Append(SelectSeq(kv.recent, LAMBDA x : x # key), key)
                                          ELSE kv.recent,
                                          LAMBDA x : x \in KvHeld(k.cache))]
  /\ UNCHANGED <<progVars, lastOp, ret, trace, batchPrev, innerSeen, muts, closedBatch,
                 selected, lru, sched, subs, tasks, arg, form, lazy, http>>

KvSet(key, value) ==
  /\ kv.evictions < KvMaxEvictions
  /\ KvDone(kvSet(KvEntered, key, value, KvTTL), "set", key, ~kv.isDestroyed)
KvGet(key) ==
  /\ kv.hits < KvMaxHits /\ kv.misses < KvMaxMisses
  /\ LET k == kvGet(KvEntered, key) IN KvDone(k, "get", key, k.ret # None)
KvHas(key) == KvDone(kvHas(KvEntered, key), "has", key, FALSE)
KvDelete(key) == KvDone(kvDelete(KvEntered, key), "delete", key, FALSE)
KvClear == KvDone(kvClear(KvEntered), "clear", 0, FALSE)
KvSize == KvDone(kvSize(KvEntered), "size", 0, FALSE)
KvGetKeys == KvDone(kvKeys(KvEntered), "keys", 0, FALSE)
KvDestroy == KvDone(kvDestroy(KvEntered), "destroy", 0, FALSE)
\* Time passes.
KvTick ==
  /\ kv.now < KvMaxNow
  /\ KvDone([KvEntered EXCEPT !.now = @ + 1], "tick", 0, FALSE)
\* The interval timer fires.
KvCleanup ==
  /\ kv.cleanupInterval /\ kv.evictions < KvMaxEvictions
  /\ KvDone(cleanup(KvEntered), "cleanup", 0, FALSE)

NextKv ==
  \/ \E key \in KvKeys, value \in KvVals : KvSet(key, value) /\ UNCHANGED broken
  \/ \E key \in KvKeys : KvGet(key) /\ UNCHANGED broken
  \/ \E key \in KvKeys : KvHas(key) /\ UNCHANGED broken
  \/ \E key \in KvKeys : KvDelete(key) /\ UNCHANGED broken
  \/ KvClear /\ UNCHANGED broken
  \/ KvSize /\ UNCHANGED broken
  \/ KvGetKeys /\ UNCHANGED broken
  \/ KvDestroy /\ UNCHANGED broken
  \/ KvTick /\ UNCHANGED broken
  \/ KvCleanup /\ UNCHANGED broken

InitKv == InitStores({1}) /\ equalityFn = [s \in {1} |-> "shallow"]

SpecKv == InitKv /\ [][NextKv]_vars

(***************************************************************************)
(* C31.  When set() of the key-value cache inserts a new key while the     *)
(* cache holds maxEntries entries, the evicted entry is the least recently *)
(* used one: the entry whose most recent access (set or successful get) is *)
(* the oldest, for every history of get and set calls.                     *)
(***************************************************************************)
\* C31 as claimed; the code evicts the first entry among those with the
\* fewest successful gets, whenever it was last accessed.
C31_EvictsLeastRecentlyUsed ==
  [][(/\ kv'.op = "set" /\ ~kv.isDestroyed
      /\ kv'.key \notin KvHeld(kv.cache) /\ Len(kv.cache) = kv.maxEntries) =>
       kv'.evicted = <<Head(kv.recent)>>]_vars

(***************************************************************************)
(* C32.  After destroy() the key-value cache is cleaned up and inert: it   *)
(* holds no entries (size() is 0 and keys() is empty), get returns null,   *)
(* has returns false and set stores nothing; a second destroy() changes    *)
(* nothing.                                                                *)
(***************************************************************************)
\* C32 as claimed; destroy() sets isDestroyed before it calls clear(), which
\* returns at once on a destroyed cache, so the entries stay.
C32_DestroyedIsInert ==
  [][kv'.isDestroyed =>
       /\ kv'.cache = <<>>
       /\ kv'.op = "size" => kv'.ret = Some(0)
       /\ kv'.op = "keys" => kv'.ret = Some(<<>>)
       /\ kv'.op = "get" => kv'.ret = None
       /\ kv'.op = "has" => kv'.ret = Some(FALSE)
       /\ kv.isDestroyed => (kv'.cache = kv.cache /\ kv'.totalSize = kv.totalSize)]_vars

(***************************************************************************)
(* One HTTP client created with retries in 0..MaxRetries, a validateStatus *)
(* and at most one onError interceptor, serving up to MaxRequests          *)
(* requests one after the other.  The server answers each fetch with any   *)
(* status, the body of a response may fail to be read, and a fetch may     *)
(* fail.  The retry timer fires and a pending fetch settles eventually.    *)
(***************************************************************************)
HttpDone(h, op) ==
  /\ http' = h
  /\ lastOp' = Op(op, 0, 0)
  /\ UNCHANGED <<progVars, ret, trace, batchPrev, innerSeen, muts, closedBatch,
                 selected, lru, sched, subs, tasks, arg, form, lazy, kv>>

Request ==
  /\ http.phase \in {"idle", "resolved", "rejected"} /\ http.requests < MaxRequests
  /\ HttpDone(httpRequest(http), "request")
Responds(status, readable) ==
  /\ http.phase = "fetching"
  /\ HttpDone(requestResponds(http, status, readable), "response")
FetchFails ==
  /\ http.phase = "fetching"
  /\ HttpDone(requestFetchFails(http), "fetchFails")
Retries ==
  /\ http.phase = "sleeping"
  /\ HttpDone(requestRetries(http), "retry")

NextHttp ==
  \/ Request /\ UNCHANGED broken
  \/ \E status \in HttpStatuses, readable \in BOOLEAN : Responds(status, readable) /\ UNCHANGED broken
  \/ FetchFails /\ UNCHANGED broken
  \/ Retries /\ UNCHANGED broken

InitHttp ==
  /\ InitCore({1}) /\ equalityFn = [s \in {1} |-> "shallow"] /\ arg = None
  /\ form = createFormControl(0, <<>>, "blur")
  /\ \E retries \in 0..MaxRetries, kind \in ValidateKinds, i \in ErrorInterceptors :
       http = [createHttpClient(retries) EXCEPT !.validateStatus = kind, !.interceptor = i]

SpecHttp ==
  /\ InitHttp /\ [][NextHttp]_vars
  /\ WF_vars(Retries /\ UNCHANGED broken)
  /\ WF_vars((FetchFails \/ \E status \in HttpStatuses, readable \in BOOLEAN :
                               Responds(status, readable)) /\ UNCHANGED broken)

(***************************************************************************)
(* C33.  With retries = R, a request whose responses have status >= 500 is *)
(* attempted again until a response passes validateStatus or R retries     *)
(* have been made: at most R + 1 fetch calls are made per request, the     *)
(* request rejects with an HttpError after R + 1 failing attempts, and a   *)
(* response that fails validateStatus with status < 500 is never retried.  *)
(* This holds for responses whose body could be read and when no onError   *)
(* interceptor throws.                                                     *)
(***************************************************************************)
\* The response the step received, and whether it fails validateStatus.
Received == http'.log[Len(http'.log)]
Failing == ~validateStatus(http.validateStatus, Received)

Observe ==
  broken' = (IF C1_BatchCoalesces_Step THEN {} ELSE {"C1"})
            \cup (IF C2_ImmediateNotify_Step THEN {} ELSE {"C2"})
            \cup (IF C4_FlushPair_Step THEN {} ELSE {"C4"})
            \cup (IF C5_Version_Step THEN {} ELSE {"C5"})
            \cup (IF C6_CacheHit_Step THEN {} ELSE {"C6"})
            \cup (IF C7_SelectCurrent_Step THEN {} ELSE {"C7"})
            \cup (IF C9_Destroyed_Step THEN {} ELSE {"C9"})
            \cup (IF C10_DestroyIdempotent_Step THEN {} ELSE {"C10"})
            \cup (IF C23_SilentAfterDestroy_Step THEN {} ELSE {"C23"})
            \cup (IF C25_CurrentSnapshot_Step THEN {} ELSE {"C25"})
            \cup (IF C26_OneThunk_Step THEN {} ELSE {"C26"})

Next ==
  \/ \E s \in StoreIds, u \in Updaters :
       stateVersion[s] < MaxVersion /\ SetState(s, u) /\ UNCHANGED <<muts, lru, subs, tasks, arg, form, lazy, kv, http>> /\ Observe
  \/ \E s \in StoreIds : GetState(s) /\ UNCHANGED <<muts, lru, subs, tasks, arg, form, lazy, kv, http>> /\ Observe
  \/ \E s \in StoreIds, l \in ListenerIds : Subscribe(s, l) /\ UNCHANGED <<muts, lru, subs, tasks, arg, form, lazy, kv, http>> /\ Observe
  \/ \E s \in StoreIds, l \in ListenerIds : Unsubscribe(s, l) /\ UNCHANGED <<muts, lru, subs, tasks, arg, form, lazy, kv, http>> /\ Observe
  \/ \E s \in StoreIds, sel \in SelectorIds : Select(s, sel) /\ UNCHANGED <<muts, lru, subs, tasks, arg, form, lazy, kv, http>> /\ Observe
  \/ \E s \in StoreIds : Destroy(s) /\ UNCHANGED <<muts, lru, subs, tasks, arg, form, lazy, kv, http>> /\ Observe
  \/ BatchEnter /\ UNCHANGED <<muts, lru, subs, tasks, arg, form, lazy, kv, http>> /\ Observe
  \/ BatchExit /\ UNCHANGED <<muts, lru, subs, tasks, arg, form, lazy, kv, http>> /\ Observe

Spec == Init /\ [][Next]_vars

\* The step properties of SpecAsync that the step does not satisfy.
ObserveAsync ==
  broken' = (IF C14_PromiseBatch_Step THEN {} ELSE {"C14"})
            \cup (IF C15_BatchAsync_Step THEN {} ELSE {"C15"})
            \cup (IF C16_BatchThrow_Step THEN {} ELSE {"C16"})
            \cup (IF C17_SharedDepth_Step THEN {} ELSE {"C17"})
            \cup (IF C18_ScheduleBatch_Step THEN {} ELSE {"C18"})
            \cup (IF C19_FifoDrain_Step THEN {} ELSE {"C19"})
            \cup (IF C35_DepthCountsOpenCalls_Step THEN {} ELSE {"C35"})

NextAsync ==
  \/ \E s \in StoreIds, u \in AsyncUpdaters : MutateInTask(s, u) /\ ObserveAsync
  \/ \E s \in StoreIds, l \in AsyncListeners :
       (s = 1 \/ l = 1) /\ Subscribe(s, l) /\ UNCHANGED <<muts, lru, subs, tasks, arg, form, lazy, kv, http>> /\ ObserveAsync
  \/ BatchCall /\ ObserveAsync
  \/ BatchReturns /\ ObserveAsync
  \/ BatchThrows /\ ObserveAsync
  \/ BatchReturnsPromise /\ ObserveAsync
  \/ \E rejected \in BOOLEAN : PromiseSettles(rejected) /\ ObserveAsync
  \/ BatchAsyncCall /\ ObserveAsync
  \/ BatchAsyncThrows /\ ObserveAsync
  \/ BatchAsyncAwaits /\ ObserveAsync
  \/ \E rejected \in BOOLEAN : BatchAsyncResumes(rejected) /\ ObserveAsync

SpecAsync == InitAsync /\ [][NextAsync]_vars

\* The step properties of SpecSubs that the step does not satisfy.
ObserveSubs ==
  broken' = (IF C12_ClosureIdempotent_Step THEN {} ELSE {"C12"})
            \cup (IF C13_NoCallAfterUnsubscribe_Step THEN {} ELSE {"C13"})
            \cup (IF C20_RegistrationOrder_Step THEN {} ELSE {"C20"})

NextSubs ==
  \/ \E s \in StoreIds, l \in ListenerIds : SubscribeTracked(s, l) /\ ObserveSubs
  \/ \E s \in StoreIds, l \in ListenerIds : UnsubscribeFirst(s, l) /\ ObserveSubs
  \/ \E s \in StoreIds, l \in ListenerIds : UnsubscribeAgain(s, l) /\ ObserveSubs
  \/ \E s \in StoreIds, u \in Updaters :
       stateVersion[s] < SubsMaxVersion /\ SetState(s, u) /\ UNCHANGED <<muts, lru, subs, tasks, arg, form, lazy, kv, http>> /\ ObserveSubs
  \/ BatchEnter /\ UNCHANGED <<muts, lru, subs, tasks, arg, form, lazy, kv, http>> /\ ObserveSubs
  \/ BatchExit /\ UNCHANGED <<muts, lru, subs, tasks, arg, form, lazy, kv, http>> /\ ObserveSubs

SpecSubs == Init /\ [][NextSubs]_vars

\* The step properties of SpecForm that the step does not satisfy.
ObserveForm ==
  broken' = (IF C29_LatestWins_Step THEN {} ELSE {"C29"})
            \cup (IF C30_Cancels_Step THEN {} ELSE {"C30"})
            \cup (IF C39_ValidatingFlag_Step THEN {} ELSE {"C39"})

NextForm ==
  \/ \E val \in FormVals : SetValue(val) /\ ObserveForm
  \/ \E err \in {"null", "manual"} : SetError(err) /\ ObserveForm
  \/ MarkTouched /\ ObserveForm
  \/ MarkDirty /\ ObserveForm
  \/ Validate /\ ObserveForm
  \/ \E newValue \in {None} \cup {Some(v) : v \in FormVals} : Reset(newValue) /\ ObserveForm
  \/ FormSubscribe /\ ObserveForm
  \/ FormDestroy /\ ObserveForm
  \/ \E id \in 1..MaxTimers : TimerFires(id) /\ ObserveForm
  \/ \E i \in 1..MaxValidationId : ValidatorSettles(i) /\ ObserveForm
  \/ \E i \in 1..MaxValidationId : ValidationResumes(i) /\ ObserveForm

SpecForm == InitForm /\ [][NextForm]_vars

====
